---- MODULE Spec2Model ----
(***************************************************************************)
(* A model of the mustache compiler and renderer (src/mustache.go).        *)
(*                                                                         *)
(* Strings are sequences of one-character strings.  Indices keep Go's      *)
(* 0-based convention: At(s, i) is s[i] and Slice(s, a, b) is s[a:b].      *)
(***************************************************************************)
EXTENDS Integers, Sequences, FiniteSets, TLC

VARIABLES
  comp,    \* the Compiler: partial, outputMode, valueStringer, errorOnMissing
  tmpl,    \* what the last CompileString returned as template (NilTemplate on error)
  cerr,    \* what the last CompileString returned as error
  ps,      \* the Template under construction: the parser's cursor and open sections
  toks,    \* the token indices the parsed input was put together from
  ctx,     \* the context arguments of the last Render
  res,     \* the outcome of the last Render: output, error, panic, event log
  op       \* the last operation

vars == <<comp, tmpl, cerr, ps, toks, ctx, res, op>>

(***************************************************************************)
(* Strings                                                                 *)
(***************************************************************************)
At(s, i) == s[i + 1]

Slice(s, a, b) == SubSeq(s, a + 1, b)

Min(S) == CHOOSE x \in S : \A y \in S : x <= y

IsBlank(c) == c \in {" ", "\t"}

IsSpace(c) == c \in {" ", "\t", "\n", "\r"}

RECURSIVE TrimLeft(_)
TrimLeft(s) ==
  IF s # <<>> /\ IsSpace(Head(s)) THEN TrimLeft(Tail(s)) ELSE s

RECURSIVE TrimRight(_)
TrimRight(s) ==
  IF s # <<>> /\ IsSpace(s[Len(s)]) THEN TrimRight(SubSeq(s, 1, Len(s) - 1)) ELSE s

TrimSpace(s) == TrimRight(TrimLeft(s))

\* strings.SplitN(s, sep, 2) for a one-character sep
SplitN2(s, sep) ==
  LET hits == {i \in 1..Len(s) : s[i] = sep}
  IN IF hits = {} THEN <<s>>
     ELSE <<SubSeq(s, 1, Min(hits) - 1), SubSeq(s, Min(hits) + 1, Len(s))>>

\* The strings ss[a], ..., ss[b] written one after the other.
RECURSIVE ConcatRange(_, _, _)
ConcatRange(ss, a, b) ==
  IF a > b THEN <<>>
  ELSE IF a = b THEN ss[a]
  ELSE ConcatRange(ss, a, (a + b) \div 2) \o ConcatRange(ss, (a + b) \div 2 + 1, b)

Concat(ss) == LET all == ss \o <<>> IN ConcatRange(all, 1, Len(all))

(***************************************************************************)
(* Errors                                                                  *)
(***************************************************************************)
NoError == [kind |-> "none", line |-> 0, message |-> "", arg |-> <<>>]

parseError(line, message, arg) ==
  [kind |-> "parse", line |-> line, message |-> message, arg |-> arg]

(***************************************************************************)
(* Lexical reader                                                          *)
(***************************************************************************)
Match(data, s, i) == \A j \in 0..(Len(s) - 1) : At(data, i + j) = At(s, j)

\* The loop of readString: the first i >= p at which s occurs; io.EOF when
\* i + len(s) passes the end first.  An empty s is indexed at s[0] (or data
\* is indexed at len(data)): an index out of range.
readString(data, p, s) ==
  LET at(i) == [panic |-> FALSE, eof |-> FALSE, text |-> Slice(data, p, i + Len(s)),
                p |-> i + Len(s),
                newlines |-> Cardinality({j \in p..i : At(data, j) = "\n"})]
      first(hits) ==
        IF hits = {}
        THEN [panic |-> FALSE, eof |-> TRUE, text |-> Slice(data, p, Len(data)),
              p |-> p, newlines |-> 0]
        ELSE at(Min(hits))
  IN IF Len(s) = 0
     THEN [panic |-> TRUE, eof |-> FALSE, text |-> <<>>, p |-> p, newlines |-> 0]
     ELSE first({i \in p..(Len(data) - Len(s)) : Match(data, s, i)})

\* The backward loop of readText: from i down to pPrev over spaces and tabs.
RECURSIVE BackOverBlanks(_, _, _)
BackOverBlanks(data, i, pPrev) ==
  IF i > pPrev /\ IsBlank(At(data, i - 1)) THEN BackOverBlanks(data, i - 1, pPrev) ELSE i

readText(data, otag, pPrev) ==
  LET split(r, start, i) ==
        IF i = 0 \/ At(data, i - 1) = "\n"
        THEN [panic |-> FALSE, eof |-> FALSE, text |-> Slice(data, pPrev, i),
              padding |-> Slice(data, i, start), mayStandalone |-> TRUE,
              p |-> r.p, newlines |-> r.newlines]
        ELSE [panic |-> FALSE, eof |-> FALSE, text |-> Slice(data, pPrev, start),
              padding |-> <<>>, mayStandalone |-> FALSE,
              p |-> r.p, newlines |-> r.newlines]
      after(r) ==
        IF r.panic \/ r.eof
        THEN [panic |-> r.panic, eof |-> r.eof, text |-> r.text, padding |-> <<>>,
              mayStandalone |-> FALSE, p |-> r.p, newlines |-> 0]
        ELSE split(r, r.p - Len(otag), BackOverBlanks(data, r.p - Len(otag), pPrev))
  IN after(readString(data, pPrev, otag))

SkipWhitespaceTagTypes == {"#", "^", "/", "<", ">", "=", "!"}

\* readTag from cursor p at line curline.  Result: the tag, whether it stands
\* alone, the cursor and line after it, or the parse error.
readTag(data, ctag, p, curline, mayStandalone) ==
  LET fail(r, e, pn) == [panic |-> pn, err |-> e, tag |-> <<>>, standalone |-> FALSE,
                         p |-> r.p, curline |-> curline + r.newlines]
      ok(tag, st, pp, ln) == [panic |-> FALSE, err |-> NoError, tag |-> tag,
                              standalone |-> st, p |-> pp, curline |-> ln]
      \* standalone and the cursor, eow the end of the blanks after the tag
      alone(r, tag, line, eow) ==
        IF ~mayStandalone THEN ok(tag, TRUE, r.p, line)
        ELSE IF At(tag, 0) \notin SkipWhitespaceTagTypes THEN ok(tag, FALSE, r.p, line)
        ELSE IF eow = Len(data) THEN ok(tag, TRUE, eow, line)
        ELSE IF eow < Len(data) /\ At(data, eow) = "\n" THEN ok(tag, TRUE, eow + 1, line + 1)
        ELSE IF eow + 1 < Len(data) /\ At(data, eow) = "\r" /\ At(data, eow + 1) = "\n"
             THEN ok(tag, TRUE, eow + 2, line + 1)
        ELSE ok(tag, FALSE, r.p, line)
      blanks(r, tag, line, rest) ==
        alone(r, tag, line, IF rest = {} THEN r.p ELSE Min(rest))
      named(r, tag, line) ==
        IF Len(tag) = 0 THEN fail(r, parseError(line, "empty tag", <<>>), FALSE)
        ELSE blanks(r, tag, line, {i \in r.p..(Len(data) - 1) : ~IsBlank(At(data, i))})
      after(r) ==
        IF r.panic THEN fail(r, NoError, TRUE)
        ELSE IF r.eof THEN fail(r, parseError(curline, "unmatched open tag", <<>>), FALSE)
        ELSE named(r, TrimSpace(Slice(r.text, 0, Len(r.text) - Len(ctag))),
                   curline + r.newlines)
  IN after(readString(data, p,
                      IF p < Len(data) /\ At(data, p) = "{" THEN <<"}">> \o ctag ELSE ctag))

(***************************************************************************)
(* Elements and the Template under construction                            *)
(***************************************************************************)
textElement(text) == [type |-> "text", text |-> text]

varElement(name, raw) == [type |-> "var", name |-> name, raw |-> raw]

sectionElement(name, inverted, startline, elems) ==
  [type |-> "section", name |-> name, inverted |-> inverted,
   startline |-> startline, elems |-> elems]

partialElement(name, indent, prov) ==
  [type |-> "partial", name |-> name, indent |-> indent, prov |-> prov]

\* parsePartial: the provider is the template's, captured at parse time.
parsePartial(t, name, indent) == partialElement(name, indent, t.partial)

\* The Template literal of CompileString.  stack[1] holds tmpl.elems; every
\* further entry is the sectionElement of a parseSection call in progress, the
\* last one the innermost.  steps counts the iterations of the parse loops.
NewTemplate(r, data) ==
  [status |-> "run", data |-> data, otag |-> <<"{", "{">>, ctag |-> <<"}", "}">>,
   p |-> 0, curline |-> 1,
   stack |-> <<sectionElement(<<>>, FALSE, 0, <<>>)>>,
   forceRaw |-> FALSE, partial |-> r.partial, outputMode |-> r.outputMode,
   valueStringer |-> r.valueStringer, errorOnMissing |-> r.errorOnMissing,
   err |-> NoError, steps |-> 0]

\* A delimiter change that splits the text between the '=' signs as it is
\* written, blanks at its ends included.
SetDelims_NoTrim(t, tag) ==
  LET newtags == SplitN2(Slice(tag, 1, Len(tag) - 1), " ")
  IN IF Len(newtags) = 2
     THEN [t EXCEPT !.otag = newtags[1], !.ctag = newtags[2]]
     ELSE t

\* The '=' case: a well-formed pair sets the delimiters, anything else that
\* ends in '=' leaves them as they are.
SetDelims(t, tag) ==
  LET newtags == SplitN2(TrimSpace(Slice(tag, 1, Len(tag) - 1)), " ")
  IN IF Len(newtags) = 2
     THEN [t EXCEPT !.otag = newtags[1], !.ctag = newtags[2]]
     ELSE t

\* A parser that scopes a delimiter change to the section it is in: the close
\* tag of a section puts the default pair back.
ParseTag_RestoreDelims(t, tag, padding) ==
  LET depth == Len(t.stack)
      section == t.stack[depth]
      c == At(tag, 0)
      name == TrimSpace(Slice(tag, 1, Len(tag)))
      add(e) == [t EXCEPT !.stack[depth].elems = Append(@, e)]
      fail(e) == [t EXCEPT !.status = "err", !.err = e]
  IN CASE c = "!" -> t
       [] c \in {"#", "^"} ->
            [t EXCEPT !.stack = Append(@, sectionElement(name, c = "^", t.curline, <<>>))]
       [] c = "/" ->
            IF depth = 1
            THEN fail(parseError(t.curline, "unmatched close tag", <<>>))
            ELSE IF name # section.name
            THEN fail(parseError(t.curline, "interleaved closing tag: ", name))
            ELSE [t EXCEPT !.stack =
                    [SubSeq(@, 1, depth - 1) EXCEPT ![depth - 1].elems = Append(@, section)],
                            !.otag = <<"{", "{">>, !.ctag = <<"}", "}">>]
       [] c = ">" -> add(parsePartial(t, name, padding))
       [] c = "=" ->
            IF Len(tag) < 2 \/ At(tag, Len(tag) - 1) # "="
            THEN fail(parseError(t.curline,
                                 IF depth = 1 THEN "Invalid meta tag" ELSE "invalid meta tag",
                                 <<>>))
            ELSE SetDelims(t, tag)
       [] c = "{" ->
            IF At(tag, Len(tag) - 1) = "}"
            THEN add(varElement(TrimSpace(Slice(tag, 1, Len(tag) - 1)), TRUE))
            ELSE t
       [] c = "&" -> add(varElement(name, TRUE))
       [] OTHER -> add(varElement(tag, t.forceRaw))

\* The switch on tag[0], shared by parse (depth 1) and parseSection (deeper).
\* t already holds the cursor after the tag and the text read before it.
ParseTag(t, tag, padding) ==
  LET depth == Len(t.stack)
      section == t.stack[depth]
      c == At(tag, 0)
      name == TrimSpace(Slice(tag, 1, Len(tag)))
      add(e) == [t EXCEPT !.stack[depth].elems = Append(@, e)]
      fail(e) == [t EXCEPT !.status = "err", !.err = e]
  IN CASE c = "!" -> t
       [] c \in {"#", "^"} ->
            [t EXCEPT !.stack = Append(@, sectionElement(name, c = "^", t.curline, <<>>))]
       [] c = "/" ->
            IF depth = 1
            THEN fail(parseError(t.curline, "unmatched close tag", <<>>))
            ELSE IF name # section.name
            THEN fail(parseError(t.curline, "interleaved closing tag: ", name))
            ELSE [t EXCEPT !.stack =
                    [SubSeq(@, 1, depth - 1) EXCEPT ![depth - 1].elems = Append(@, section)]]
       [] c = ">" -> add(parsePartial(t, name, padding))
       [] c = "=" ->
            IF Len(tag) < 2 \/ At(tag, Len(tag) - 1) # "="
            THEN fail(parseError(t.curline,
                                 IF depth = 1 THEN "Invalid meta tag" ELSE "invalid meta tag",
                                 <<>>))
            ELSE SetDelims(t, tag)
       [] c = "{" ->
            IF At(tag, Len(tag) - 1) = "}"
            THEN add(varElement(TrimSpace(Slice(tag, 1, Len(tag) - 1)), TRUE))
            ELSE t
       [] c = "&" -> add(varElement(name, TRUE))
       [] OTHER -> add(varElement(tag, t.forceRaw))

\* One iteration of the loop of parse or of the innermost parseSection.
ParseStep(t0) ==
  LET t == [t0 EXCEPT !.steps = @ + 1]
      depth == Len(t0.stack)
      section == t0.stack[depth]
      tagRead(t1, tr, tg) ==
        IF tg.panic THEN [t1 EXCEPT !.status = "panic"]
        ELSE IF tg.err # NoError
        THEN [t1 EXCEPT !.status = "err", !.err = tg.err,
                        !.p = tg.p, !.curline = tg.curline]
        ELSE ParseTag(IF ~tg.standalone
                      THEN [t1 EXCEPT !.p = tg.p, !.curline = tg.curline,
                                      !.stack[depth].elems = Append(@, textElement(tr.padding))]
                      ELSE [t1 EXCEPT !.p = tg.p, !.curline = tg.curline],
                      tg.tag, tr.padding)
      textPut(t1, tr) ==
        tagRead(t1, tr, readTag(t1.data, t1.ctag, t1.p, t1.curline, tr.mayStandalone))
      textRead(tr) ==
        IF tr.panic THEN [t EXCEPT !.status = "panic"]
        ELSE IF tr.eof
        THEN IF depth = 1
             THEN [t EXCEPT !.status = "ok",
                            !.stack[1].elems = Append(@, textElement(tr.text))]
             ELSE [t EXCEPT !.status = "err",
                            !.err = parseError(section.startline,
                                               "Section has no closing tag", section.name)]
        ELSE textPut([t EXCEPT !.p = tr.p, !.curline = @ + tr.newlines,
                               !.stack[depth].elems = Append(@, textElement(tr.text))],
                     tr)
  IN textRead(readText(t0.data, t0.otag, t0.p))

\* tmpl.parse() to its end.
RECURSIVE Run(_)
Run(t) == IF t.status = "run" THEN Run(ParseStep(t)) ELSE t

NilTemplate == [nil |-> TRUE]

\* A CompileString that hands back what parse had built when it failed.
Returned_WithPartialTemplate(t) ==
  [tmpl |-> IF t.status = "panic" THEN NilTemplate
            ELSE [data |-> t.data, otag |-> t.otag, ctag |-> t.ctag, p |-> t.p,
                  curline |-> t.curline, elems |-> t.stack[1].elems,
                  forceRaw |-> t.forceRaw, partial |-> t.partial,
                  outputMode |-> t.outputMode, valueStringer |-> t.valueStringer,
                  errorOnMissing |-> t.errorOnMissing],
   err |-> t.err, panic |-> t.status = "panic"]

\* What CompileString hands back once parse has returned: (&tmpl, nil) or
\* (nil, err).  A panic leaves the caller without either.
Returned(t) ==
  IF t.status = "ok"
  THEN [tmpl |-> [data |-> t.data, otag |-> t.otag, ctag |-> t.ctag, p |-> t.p,
                  curline |-> t.curline, elems |-> t.stack[1].elems,
                  forceRaw |-> t.forceRaw, partial |-> t.partial,
                  outputMode |-> t.outputMode, valueStringer |-> t.valueStringer,
                  errorOnMissing |-> t.errorOnMissing],
        err |-> NoError, panic |-> FALSE]
  ELSE [tmpl |-> NilTemplate, err |-> t.err, panic |-> t.status = "panic"]

CompileString(r, data) == Returned(Run(NewTemplate(r, data)))

(***************************************************************************)
(* Host values (reflect.Value).  An interface wrapper is not kept apart    *)
(* from what it holds, except the nil interface.                           *)
(***************************************************************************)
NoMethods == <<>>

Invalid == [kind |-> "invalid"]

NilV == [kind |-> "nil"]

BoolV(b) == [kind |-> "bool", b |-> b]

IntV(n) == [kind |-> "int", n |-> n]

StrV(s) == [kind |-> "string", s |-> s]

SliceV(elems) == [kind |-> "slice", elems |-> elems, isnil |-> FALSE]

MapV(m) == [kind |-> "map", m |-> m, isnil |-> FALSE]

NilMap == [kind |-> "map", m |-> <<>>, isnil |-> TRUE]

StructV(fields, methods) == [kind |-> "struct", fields |-> fields, methods |-> methods]

PtrV(elem, methods) == [kind |-> "ptr", elem |-> elem, methods |-> methods]

NilPtr == [kind |-> "ptr", elem |-> Invalid, methods |-> NoMethods]

FuncV(fn) == [kind |-> "func", fn |-> fn, isnil |-> FALSE]

\* A method of a type's method set: the number of its inputs, the receiver
\* counted, and what a call returns.
Method(numIn, results) == [numIn |-> numIn, results |-> results]

Methods(v) == IF v.kind \in {"struct", "ptr"} THEN v.methods ELSE NoMethods

missingVariable(name) ==
  [kind |-> "missing", line |-> 0, message |-> "missing variable", arg |-> name]

(***************************************************************************)
(* Context resolver                                                        *)
(***************************************************************************)
\* The inner loop of lookup on one chain entry: "found", "next" (continue
\* Outer, or the entry is not valid) or "panic".
RECURSIVE Probe(_, _)
Probe(v, name) ==
  LET found(x) == [r |-> "found", v |-> x]
      next == [r |-> "next", v |-> Invalid]
      ms == Methods(v)
  IN IF v.kind = "invalid" THEN next
     ELSE IF name \in DOMAIN ms /\ ms[name].numIn = 1
     THEN IF ms[name].results = <<>>
          THEN [r |-> "panic", v |-> Invalid]
          ELSE found(ms[name].results[1])
     ELSE IF name = <<".">> THEN found(v)
     ELSE CASE v.kind = "ptr" -> Probe(v.elem, name)
            [] v.kind = "nil" -> next
            [] v.kind = "struct" ->
                 IF name \in DOMAIN v.fields THEN found(v.fields[name]) ELSE next
            [] v.kind = "map" ->
                 IF name \in DOMAIN v.m THEN found(v.m[name]) ELSE next
            [] OTHER -> next

\* The Outer loop of lookup.
RECURSIVE Scan(_, _)
\* A scan that starts at the back of the chain.
Scan_FromTheBack(contextChain, name) ==
  IF contextChain = <<>> THEN [r |-> "next", v |-> Invalid]
  ELSE LET a == Probe(contextChain[Len(contextChain)], name)
       IN IF a.r = "next"
          THEN Scan(SubSeq(contextChain, 1, Len(contextChain) - 1), name)
          ELSE a

Scan(contextChain, name) ==
  IF contextChain = <<>> THEN [r |-> "next", v |-> Invalid]
  ELSE LET a == Probe(Head(contextChain), name)
       IN IF a.r = "next" THEN Scan(Tail(contextChain), name) ELSE a

IsDotted(name) == name # <<".">> /\ \E i \in 1..Len(name) : name[i] = "."

\* lookup: a panic while probing is recovered by the deferred function, and
\* the call then returns the zero values of its results.
RECURSIVE lookup(_, _, _)
\* A lookup that applies the policy to the first segment of a name only.
lookup_FirstSegmentOnly(contextChain, name, errorOnMissing) ==
  IF IsDotted(name)
  THEN LET parts == SplitN2(name, ".")
           r == lookup(contextChain, parts[1], errorOnMissing)
       IN IF r.err # NoError THEN r
          ELSE lookup(<<r.v>>, parts[2], FALSE)
  ELSE LET a == Scan(contextChain, name)
       IN IF a.r = "panic" THEN [v |-> Invalid, err |-> NoError]
          ELSE IF a.r = "found" THEN [v |-> a.v, err |-> NoError]
          ELSE IF ~errorOnMissing THEN [v |-> Invalid, err |-> NoError]
          ELSE [v |-> Invalid, err |-> missingVariable(name)]

\* A lookup that goes on to the rest of the chain for the later segments.
lookup_WholeChain(contextChain, name, errorOnMissing) ==
  IF IsDotted(name)
  THEN LET parts == SplitN2(name, ".")
           r == lookup(contextChain, parts[1], errorOnMissing)
       IN IF r.err # NoError THEN r
          ELSE lookup(<<r.v>> \o contextChain, parts[2], errorOnMissing)
  ELSE LET a == Scan(contextChain, name)
       IN IF a.r = "panic" THEN [v |-> Invalid, err |-> NoError]
          ELSE IF a.r = "found" THEN [v |-> a.v, err |-> NoError]
          ELSE IF ~errorOnMissing THEN [v |-> Invalid, err |-> NoError]
          ELSE [v |-> Invalid, err |-> missingVariable(name)]

lookup(contextChain, name, errorOnMissing) ==
  IF IsDotted(name)
  THEN LET parts == SplitN2(name, ".")
           r == lookup(contextChain, parts[1], errorOnMissing)
       IN IF r.err # NoError THEN r
          ELSE lookup(<<r.v>>, parts[2], errorOnMissing)
  ELSE LET a == Scan(contextChain, name)
       IN IF a.r = "panic" THEN [v |-> Invalid, err |-> NoError]
          ELSE IF a.r = "found" THEN [v |-> a.v, err |-> NoError]
          ELSE IF ~errorOnMissing THEN [v |-> Invalid, err |-> NoError]
          ELSE [v |-> Invalid, err |-> missingVariable(name)]

RECURSIVE indirect(_)
indirect(v) == IF v.kind = "ptr" THEN indirect(v.elem) ELSE IF v.kind = "nil" THEN Invalid ELSE v

\* reflect.Value.IsZero
RECURSIVE IsZero(_)
IsZero(v) ==
  CASE v.kind = "bool" -> ~v.b
    [] v.kind = "int" -> v.n = 0
    [] v.kind = "string" -> v.s = <<>>
    [] v.kind \in {"slice", "map", "func"} -> v.isnil
    [] v.kind = "ptr" -> v.elem = Invalid
    [] v.kind = "struct" -> \A f \in DOMAIN v.fields : IsZero(v.fields[f])
    [] OTHER -> TRUE

\* An isEmpty that takes a string for empty only when it has no character.
isEmpty_NoTrim(v) ==
  IF v.kind \in {"invalid", "nil"} THEN TRUE
  ELSE LET valueInd == indirect(v)
       IN IF valueInd.kind = "invalid" THEN TRUE
          ELSE CASE valueInd.kind = "slice" -> Len(valueInd.elems) = 0
                 [] valueInd.kind = "string" -> Len(valueInd.s) = 0
                 [] OTHER -> IsZero(valueInd)

isEmpty(v) ==
  IF v.kind \in {"invalid", "nil"} THEN TRUE
  ELSE LET valueInd == indirect(v)
       IN IF valueInd.kind = "invalid" THEN TRUE
          ELSE CASE valueInd.kind = "slice" -> Len(valueInd.elems) = 0
                 [] valueInd.kind = "string" -> Len(TrimSpace(valueInd.s)) = 0
                 [] OTHER -> IsZero(valueInd)

(***************************************************************************)
(* Stringify and escape                                                    *)
(***************************************************************************)
Digits == <<"0", "1", "2", "3", "4", "5", "6", "7", "8", "9">>

RECURSIVE Itoa(_)
Itoa(n) ==
  IF n < 0 THEN <<"-">> \o Itoa(0 - n)
  ELSE IF n < 10 THEN <<Digits[n + 1]>>
  ELSE Itoa(n \div 10) \o <<Digits[(n % 10) + 1]>>

\* The characters of the model in byte order, for the sorted keys fmt prints.
ByteOrder ==
  <<"\t", "\n", "\r", " ", "!", "\"", "#", "%", "&", "'", ".", "/",
    "0", "1", "2", "3", "4", "5", "6", "7", "8", "9", ":", ";", "<", "=", ">", "?",
    "A", "B", "C", "D", "E", "F", "G", "H", "I", "J", "K", "L", "M", "N", "O", "P",
    "Q", "R", "S", "T", "U", "V", "W", "X", "Y", "Z", "[", "\\", "]", "^", "_",
    "a", "b", "c", "d", "e", "f", "g", "h", "i", "j", "k", "l", "m", "n", "o", "p",
    "q", "r", "s", "t", "u", "v", "w", "x", "y", "z", "{", "|", "}">>

\* The place of every character in ByteOrder.
ByteOf ==
  [c \in {ByteOrder[i] : i \in 1..Len(ByteOrder)} |->
     CHOOSE i \in 1..Len(ByteOrder) : ByteOrder[i] = c] @@ <<>>

\* a < b for strings, byte by byte.
RECURSIVE StrLess(_, _)
StrLess(a, b) ==
  IF b = <<>> THEN FALSE
  ELSE IF a = <<>> THEN TRUE
  ELSE IF Head(a) = Head(b) THEN StrLess(Tail(a), Tail(b))
  ELSE ByteOf[Head(a)] < ByteOf[Head(b)]

\* The keys in K in byte order: each key at the place that the number of
\* keys below it gives.
SortedKeys(K) ==
  LET below == [k \in K |-> Cardinality({y \in K : StrLess(y, k)})] @@ <<>>
  IN SubSeq([i \in 1..Cardinality(K) |-> CHOOSE k \in K : below[k] = i - 1],
            1, Cardinality(K))

Join(ss, sep) ==
  Concat([i \in 1..Len(ss) |-> IF i = 1 THEN ss[i] ELSE sep \o ss[i]])

\* fmt.Sprint(value), the %v verb.  A func prints as its code address, and a
\* pointer below the top level as its address: the model keeps both opaque.
RECURSIVE Sprintv(_, _)
Sprintv(v, depth) ==
  CASE v.kind = "string" -> v.s
    [] v.kind = "bool" -> IF v.b THEN <<"t", "r", "u", "e">> ELSE <<"f", "a", "l", "s", "e">>
    [] v.kind = "int" -> Itoa(v.n)
    [] v.kind \in {"nil", "invalid"} -> <<"<", "n", "i", "l", ">">>
    [] v.kind = "slice" ->
         <<"[">> \o Join([i \in 1..Len(v.elems) |-> Sprintv(v.elems[i], depth + 1)], <<" ">>)
                 \o <<"]">>
    [] v.kind = "map" ->
         LET ks == SortedKeys(DOMAIN v.m)
         IN <<"m", "a", "p", "[">>
              \o Join([i \in 1..Len(ks) |-> ks[i] \o <<":">> \o Sprintv(v.m[ks[i]], depth + 1)],
                      <<" ">>)
              \o <<"]">>
    [] v.kind = "struct" ->
         LET ks == SortedKeys(DOMAIN v.fields)
         IN <<"{">> \o Join([i \in 1..Len(ks) |-> Sprintv(v.fields[ks[i]], depth + 1)], <<" ">>)
                    \o <<"}">>
    [] v.kind = "ptr" ->
         IF v.elem = Invalid THEN <<"<", "n", "i", "l", ">">>
         ELSE IF depth = 0 /\ v.elem.kind \in {"struct", "slice", "map"}
         THEN <<"&">> \o Sprintv(v.elem, depth + 1)
         ELSE <<"0", "x", "?">>
    [] OTHER -> <<"0", "x", "?">>

Sprint(v) == Sprintv(v, 0)

\* An escaper that leaves the apostrophe alone.
HTMLEscapeChar_NoApostrophe(c) ==
  CASE c = "\"" -> <<"&", "#", "3", "4", ";">>
    [] c = "&" -> <<"&", "a", "m", "p", ";">>
    [] c = "<" -> <<"&", "l", "t", ";">>
    [] c = ">" -> <<"&", "g", "t", ";">>
    [] OTHER -> <<c>>

\* html/template.HTMLEscape
HTMLEscapeChar(c) ==
  CASE c = "\"" -> <<"&", "#", "3", "4", ";">>
    [] c = "'" -> <<"&", "#", "3", "9", ";">>
    [] c = "&" -> <<"&", "a", "m", "p", ";">>
    [] c = "<" -> <<"&", "l", "t", ";">>
    [] c = ">" -> <<"&", "g", "t", ";">>
    [] OTHER -> <<c>>

HTMLEscape(s) == Concat([i \in 1..Len(s) |-> HTMLEscapeChar(s[i])])

\* Runes that have no escape in a TLA+ string are written U+ and their code
\* point: backspace, two other control characters, the last of the C1
\* controls, and two characters outside ASCII.
CodePoint ==
  ("U+0008" :> 8) @@ ("U+001c" :> 28) @@ ("U+007f" :> 127) @@ ("U+009f" :> 159)
    @@ ("U+00e9" :> 233) @@ ("U+1f99c" :> 129436)

\* unicode.IsControl: the category Cc.  Every other character of the model
\* is a printing one.
IsControl(r) ==
  r \in DOMAIN CodePoint /\ (CodePoint[r] <= 31 \/ CodePoint[r] \in 127..159)

HexDigits ==
  <<"0", "1", "2", "3", "4", "5", "6", "7", "8", "9", "a", "b", "c", "d", "e", "f">>

RECURSIVE Hex(_)
Hex(n) ==
  IF n < 16 THEN <<HexDigits[n + 1]>>
  ELSE Hex(n \div 16) \o <<HexDigits[(n % 16) + 1]>>

RECURSIVE ZeroPad(_, _)
ZeroPad(s, width) == IF Len(s) >= width THEN s ELSE ZeroPad(<<"0">> \o s, width)

\* fmt.Sprintf("\\u%04x", r)
Sprintf04x(n) == <<"\\", "u">> \o ZeroPad(Hex(n), 4)

\* A JSONEscape that writes the code of a control character without padding.
JSONEscapeChar_NoPadding(r) ==
  CASE r \in {"\"", "\\"} -> <<"\\", r>>
    [] r = "\n" -> <<"\\", "n">>
    [] r = "U+0008" -> <<"\\", "b">>
    [] r = "\f" -> <<"\\", "f">>
    [] r = "\r" -> <<"\\", "r">>
    [] r = "\t" -> <<"\\", "t">>
    [] OTHER -> IF IsControl(r) THEN <<"\\", "u">> \o Hex(CodePoint[r]) ELSE <<r>>

\* One rune of JSONEscape: the switch in the loop.
JSONEscapeChar(r) ==
  CASE r \in {"\"", "\\"} -> <<"\\", r>>
    [] r = "\n" -> <<"\\", "n">>
    [] r = "U+0008" -> <<"\\", "b">>
    [] r = "\f" -> <<"\\", "f">>
    [] r = "\r" -> <<"\\", "r">>
    [] r = "\t" -> <<"\\", "t">>
    [] OTHER -> IF IsControl(r) THEN Sprintf04x(CodePoint[r]) ELSE <<r>>

JSONEscape(s) == Concat([i \in 1..Len(s) |-> JSONEscapeChar(s[i])])

\* valueString: the configured stringer, or fmt.Sprint without one.  The one
\* custom stringer of the model, "quote", puts the default text in brackets.
valueString(t, v) ==
  IF t.valueStringer # "nil"
  THEN [s |-> <<"[">> \o Sprint(v) \o <<"]">>, err |-> NoError]
  ELSE [s |-> Sprint(v), err |-> NoError]

(***************************************************************************)
(* Partials                                                                *)
(***************************************************************************)
NoProvider == [kind |-> "nil"]

StaticProvider(partials) == [kind |-> "static", Partials |-> partials]

\* A provider whose Get fails, as FileProvider does on an unsafe name.
FailingProvider == [kind |-> "failing"]

partialError(name) ==
  [kind |-> "partial", line |-> 0, message |-> "unsafe partial name", arg |-> name]

\* PartialProvider.Get
Get(prov, name) ==
  CASE prov.kind = "static" ->
         IF name \in DOMAIN prov.Partials
         THEN [data |-> prov.Partials[name], err |-> NoError]
         ELSE [data |-> <<>>, err |-> NoError]
    [] OTHER -> [data |-> <<>>, err |-> partialError(name)]

\* regexp (?m:^(.+)$) replaced by indent + "$1": every non-empty line gets
\* the indent in front.
RECURSIVE IndentLines(_, _, _)
IndentLines(data, indent, atLineStart) ==
  IF data = <<>> THEN <<>>
  ELSE IF Head(data) = "\n" THEN <<"\n">> \o IndentLines(Tail(data), indent, TRUE)
  ELSE (IF atLineStart THEN indent ELSE <<>>) \o <<Head(data)>>
         \o IndentLines(Tail(data), indent, FALSE)

New == [partial |-> NoProvider, outputMode |-> "EscapeHTML",
        valueStringer |-> "nil", errorOnMissing |-> FALSE]

\* v1api.ParseStringPartials: a fresh Compiler with the provider and the
\* HTML escape mode.
ParseStringPartials(data, partials) ==
  LET r == [New EXCEPT !.partial = partials, !.outputMode = "EscapeHTML"]
  IN [c |-> CompileString(r, data), r |-> r]

\* getPartials.  Get on a nil provider is a call through a nil interface.
getPartials(partials, name, indent) ==
  LET parsed(q) == [panic |-> q.c.panic, err |-> q.c.err, tmpl |-> q.c.tmpl, r |-> q.r]
      got(g) ==
        IF g.err # NoError
        THEN [panic |-> FALSE, err |-> g.err, tmpl |-> NilTemplate, r |-> New]
        ELSE parsed(ParseStringPartials(IndentLines(g.data, indent, TRUE), partials))
  IN IF partials.kind = "nil"
     THEN [panic |-> TRUE, err |-> NoError, tmpl |-> NilTemplate, r |-> New]
     ELSE got(Get(partials, name))

(***************************************************************************)
(* Renderer.  A render yields the bytes written to its buffer, the error   *)
(* returned, whether it panicked, and the log of what it did, in the order *)
(* in which it was done: one event for every text, variable and partial    *)
(* element rendered, and one for every section evaluated, logged when      *)
(* renderSection returns.  buf is 0 for what writes to the caller's        *)
(* buffer and n + 1 for what a render callback at level n renders into the *)
(* buffer of its own.                                                      *)
(***************************************************************************)
Done(out, log) == [out |-> out, err |-> NoError, panic |-> FALSE, log |-> log]

Failed(out, err, log) == [out |-> out, err |-> err, panic |-> FALSE, log |-> log]

Panicked(out, log) == [out |-> out, err |-> NoError, panic |-> TRUE, log |-> log]

Stopped(a) == a.err # NoError \/ a.panic

\* b after a, both writing to the same buffer.
Then(a, b) == [out |-> a.out \o b.out, err |-> b.err, panic |-> b.panic, log |-> a.log \o b.log]

Logged(a, e) == [a EXCEPT !.log = @ \o <<e>>]

RECURSIVE getElementText(_)
getElementText(elem) ==
  CASE elem.type = "text" -> elem.text
    [] elem.type = "var" -> <<"{", "{">> \o elem.name \o <<"}", "}">>
    [] elem.type = "section" ->
         <<"{", "{">> \o (IF elem.inverted THEN <<"^">> ELSE <<"#">>) \o elem.name \o <<"}", "}">>
           \o Concat([i \in 1..Len(elem.elems) |-> getElementText(elem.elems[i])])
           \o <<"{", "{", "/">> \o elem.name \o <<"}", "}">>
    [] OTHER -> <<>>

getSectionText(elements) ==
  Concat([i \in 1..Len(elements) |-> getElementText(elements[i])])

lambdaError == [kind |-> "lambda", line |-> 0, message |-> "test err", arg |-> <<>>]

\* The configuration a render reads from its Template.
Config(t) == [t EXCEPT !.data = <<>>, !.elems = <<>>]

textEvent(element) == [ev |-> "text", out |-> element.text, buf |-> 0]

varEvent(t, elem, contextChain, value, out, err) ==
  [ev |-> "var", name |-> elem.name, raw |-> elem.raw, chain |-> contextChain,
   value |-> value, t |-> Config(t), out |-> out, err |-> err, buf |-> 0]

\* One event for every call of getPartials: what Get was asked for, and the
\* template parsed from what it returned.
partialEvent(elem, g) ==
  [ev |-> "partial", name |-> elem.name, indent |-> elem.indent, tmpl |-> g.tmpl,
   err |-> g.err, panic |-> g.panic, buf |-> 0]

sectionEvent(t, r, section, contextChain, value, lambda, contexts, a) ==
  [ev |-> "section", name |-> section.name, inverted |-> section.inverted,
   elems |-> section.elems, chain |-> contextChain, value |-> value,
   empty |-> isEmpty(value), lambda |-> lambda, contexts |-> contexts,
   t |-> Config(t), r |-> r, out |-> a.out, err |-> a.err, panic |-> a.panic, buf |-> 0]

Inner(log) == [i \in 1..Len(log) |-> [log[i] EXCEPT !.buf = @ + 1]]

RECURSIVE renderElement(_, _, _, _)
RECURSIVE renderSection(_, _, _, _)
RECURSIVE renderElems(_, _, _, _)
RECURSIVE renderContexts(_, _, _, _, _)

\* A loop that notes the first error and goes on with the elements after it.
renderElems_KeepGoing(t, r, elems, contextChain) ==
  LET both(a, b) ==
        IF a.panic THEN a
        ELSE [out |-> a.out \o b.out,
              err |-> IF a.err # NoError THEN a.err ELSE b.err,
              panic |-> b.panic,
              log |-> a.log \o b.log]
  IN IF elems = <<>> THEN Done(<<>>, <<>>)
     ELSE both(renderElement(t, r, Head(elems), contextChain),
               renderElems(t, r, Tail(elems), contextChain))

\* The loop of renderTemplate (and of one section iteration): it returns at
\* the first error, and a panic unwinds it.
renderElems(t, r, elems, contextChain) ==
  LET rest(a) ==
        IF Stopped(a) THEN a
        ELSE Then(a, renderElems(t, r, Tail(elems), contextChain))
  IN IF elems = <<>> THEN Done(<<>>, <<>>)
     ELSE rest(renderElement(t, r, Head(elems), contextChain))

renderTemplate(t, r, contextChain) == renderElems(t, r, t.elems, contextChain)

\* The render closure of a lambda section: tmpl.parent.CompileString(text),
\* then renderTemplate on the section's chain into a buffer of its own.
RenderFn(r, text, contextChain) ==
  LET rendered(b) ==
        IF b.panic THEN Panicked(<<>>, Inner(b.log))
        ELSE IF b.err # NoError THEN Failed(<<>>, b.err, Inner(b.log))
        ELSE Done(b.out, Inner(b.log))
      compiled(c) ==
        IF c.panic THEN Panicked(<<>>, <<>>)
        ELSE IF c.err # NoError THEN Failed(<<>>, c.err, <<>>)
        ELSE rendered(renderTemplate(c.tmpl, r, contextChain))
  IN compiled(CompileString(r, text))

\* The callable of a lambda section, called with the section's text and the
\* render closure: the string and the error it returns, in out and err.
\*   "ok"      returns a fixed string holding a tag and an HTML character
\*   "err"     returns an error
\*   "render"  returns what render(text) returns
CallLambda(fn, text, r, contextChain) ==
  CASE fn = "err" -> Failed(<<>>, lambdaError, <<>>)
    [] fn = "render" -> RenderFn(r, text, contextChain)
    [] OTHER -> Done(<<"<", "{", "{", "x", "}", "}">>, <<>>)

\* The loop over contexts at the end of renderSection.
renderContexts(t, r, section, contexts, contextChain) ==
  LET rest(a) ==
        IF Stopped(a) THEN a
        ELSE Then(a, renderContexts(t, r, section, Tail(contexts), contextChain))
  IN IF contexts = <<>> THEN Done(<<>>, <<>>)
     ELSE rest(renderElems(t, r, section.elems, <<Head(contexts)>> \o contextChain))

\* A renderSection that skips the empty sections only, inverted or not.
renderSection_SkipEmptyOnly(t, r, section, contextChain) ==
  LET ev(value, lambda, contexts, a) ==
        Logged(a, sectionEvent(t, r, section, contextChain, value, lambda, contexts, a))
      called(value, c) ==
        ev(value, TRUE, <<>>, IF c.panic \/ c.err # NoError THEN [c EXCEPT !.out = <<>>] ELSE c)
      iterate(value, contexts) ==
        ev(value, FALSE, contexts, renderContexts(t, r, section, contexts, contextChain))
      evaluate(value, context, empty, valueInd) ==
        IF empty
        THEN ev(value, FALSE, <<>>, Done(<<>>, <<>>))
        ELSE IF ~section.inverted /\ valueInd.kind = "func"
        THEN called(value, CallLambda(valueInd.fn, getSectionText(section.elems),
                                      r, contextChain))
        ELSE iterate(value, IF section.inverted THEN <<context>>
                            ELSE IF valueInd.kind = "slice" THEN valueInd.elems
                            ELSE <<value>>)
      found(l) ==
        IF l.err # NoError THEN Failed(<<>>, l.err, <<>>)
        ELSE IF contextChain = <<>> THEN Panicked(<<>>, <<>>)
        ELSE evaluate(l.v, contextChain[1], isEmpty(l.v), indirect(l.v))
  IN found(lookup(contextChain, section.name, t.errorOnMissing))

\* A renderSection that hands an inverted section its own value.
renderSection_OwnValue(t, r, section, contextChain) ==
  LET ev(value, lambda, contexts, a) ==
        Logged(a, sectionEvent(t, r, section, contextChain, value, lambda, contexts, a))
      called(value, c) ==
        ev(value, TRUE, <<>>, IF c.panic \/ c.err # NoError THEN [c EXCEPT !.out = <<>>] ELSE c)
      iterate(value, contexts) ==
        ev(value, FALSE, contexts, renderContexts(t, r, section, contexts, contextChain))
      evaluate(value, context, empty, valueInd) ==
        IF (empty /\ ~section.inverted) \/ (~empty /\ section.inverted)
        THEN ev(value, FALSE, <<>>, Done(<<>>, <<>>))
        ELSE IF ~section.inverted /\ valueInd.kind = "func"
        THEN called(value, CallLambda(valueInd.fn, getSectionText(section.elems),
                                      r, contextChain))
        ELSE iterate(value, IF section.inverted THEN <<value>>
                            ELSE IF valueInd.kind = "slice" THEN valueInd.elems
                            ELSE <<value>>)
      found(l) ==
        IF l.err # NoError THEN Failed(<<>>, l.err, <<>>)
        ELSE IF contextChain = <<>> THEN Panicked(<<>>, <<>>)
        ELSE evaluate(l.v, contextChain[1], isEmpty(l.v), indirect(l.v))
  IN found(lookup(contextChain, section.name, t.errorOnMissing))

\* A renderSection that hands the callable a chain with the lambda value in front.
renderSection_LambdaOnChain(t, r, section, contextChain) ==
  LET ev(value, lambda, contexts, a) ==
        Logged(a, sectionEvent(t, r, section, contextChain, value, lambda, contexts, a))
      called(value, c) ==
        ev(value, TRUE, <<>>, IF c.panic \/ c.err # NoError THEN [c EXCEPT !.out = <<>>] ELSE c)
      iterate(value, contexts) ==
        ev(value, FALSE, contexts, renderContexts(t, r, section, contexts, contextChain))
      evaluate(value, context, empty, valueInd) ==
        IF (empty /\ ~section.inverted) \/ (~empty /\ section.inverted)
        THEN ev(value, FALSE, <<>>, Done(<<>>, <<>>))
        ELSE IF ~section.inverted /\ valueInd.kind = "func"
        THEN called(value, CallLambda(valueInd.fn, getSectionText(section.elems),
                                      r, <<value>> \o contextChain))
        ELSE iterate(value, IF section.inverted THEN <<context>>
                            ELSE IF valueInd.kind = "slice" THEN valueInd.elems
                            ELSE <<value>>)
      found(l) ==
        IF l.err # NoError THEN Failed(<<>>, l.err, <<>>)
        ELSE IF contextChain = <<>> THEN Panicked(<<>>, <<>>)
        ELSE evaluate(l.v, contextChain[1], isEmpty(l.v), indirect(l.v))
  IN found(lookup(contextChain, section.name, t.errorOnMissing))

renderSection(t, r, section, contextChain) ==
  LET ev(value, lambda, contexts, a) ==
        Logged(a, sectionEvent(t, r, section, contextChain, value, lambda, contexts, a))
      called(value, c) ==
        ev(value, TRUE, <<>>, IF c.panic \/ c.err # NoError THEN [c EXCEPT !.out = <<>>] ELSE c)
      iterate(value, contexts) ==
        ev(value, FALSE, contexts, renderContexts(t, r, section, contexts, contextChain))
      evaluate(value, context, empty, valueInd) ==
        IF (empty /\ ~section.inverted) \/ (~empty /\ section.inverted)
        THEN ev(value, FALSE, <<>>, Done(<<>>, <<>>))
        ELSE IF ~section.inverted /\ valueInd.kind = "func"
        THEN called(value, CallLambda(valueInd.fn, getSectionText(section.elems),
                                      r, contextChain))
        ELSE iterate(value, IF section.inverted THEN <<context>>
                            ELSE IF valueInd.kind = "slice" THEN valueInd.elems
                            ELSE <<value>>)
      found(l) ==
        IF l.err # NoError THEN Failed(<<>>, l.err, <<>>)
        ELSE IF contextChain = <<>> THEN Panicked(<<>>, <<>>)
        ELSE evaluate(l.v, contextChain[1], isEmpty(l.v), indirect(l.v))
  IN found(lookup(contextChain, section.name, t.errorOnMissing))

\* A renderElement that swallows the error of a partial whatever the policy.
renderElement_SwallowPartialError(t, r, element, contextChain) ==
  LET ev(val, out, err) ==
        [out |-> out, err |-> err, panic |-> FALSE,
         log |-> <<varEvent(t, element, contextChain, val, out, err)>>]
      written(val, s) ==
        IF s.err # NoError THEN ev(val, <<>>, s.err)
        ELSE CASE t.outputMode = "EscapeJSON" -> ev(val, JSONEscape(s.s), NoError)
               [] t.outputMode = "EscapeHTML" -> ev(val, HTMLEscape(s.s), NoError)
               [] t.outputMode = "Raw" -> ev(val, s.s, NoError)
               [] OTHER -> ev(val, <<>>, NoError)
      found(l) ==
        IF l.err # NoError THEN ev(l.v, <<>>, l.err)
        ELSE IF l.v.kind = "invalid" THEN ev(l.v, <<>>, NoError)
        ELSE IF element.raw THEN ev(l.v, Sprint(l.v), NoError)
        ELSE written(l.v, valueString(t, l.v))
      partial(g, e) ==
        IF g.panic THEN Panicked(<<>>, <<e>>)
        ELSE IF g.err # NoError
        THEN Done(<<>>, <<e>>)
        ELSE Then(Done(<<>>, <<e>>), renderTemplate(g.tmpl, g.r, contextChain))
      got(g) == partial(g, partialEvent(element, g))
  IN CASE element.type = "text" -> Done(element.text, <<textEvent(element)>>)
       [] element.type = "var" ->
            found(lookup(contextChain, element.name, t.errorOnMissing))
       [] element.type = "section" -> renderSection(t, r, element, contextChain)
       [] element.type = "partial" ->
            got(getPartials(element.prov, element.name, element.indent))
       [] OTHER -> Done(<<>>, <<>>)

renderElement(t, r, element, contextChain) ==
  LET ev(val, out, err) ==
        [out |-> out, err |-> err, panic |-> FALSE,
         log |-> <<varEvent(t, element, contextChain, val, out, err)>>]
      written(val, s) ==
        IF s.err # NoError THEN ev(val, <<>>, s.err)
        ELSE CASE t.outputMode = "EscapeJSON" -> ev(val, JSONEscape(s.s), NoError)
               [] t.outputMode = "EscapeHTML" -> ev(val, HTMLEscape(s.s), NoError)
               [] t.outputMode = "Raw" -> ev(val, s.s, NoError)
               [] OTHER -> ev(val, <<>>, NoError)
      found(l) ==
        IF l.err # NoError THEN ev(l.v, <<>>, l.err)
        ELSE IF l.v.kind = "invalid" THEN ev(l.v, <<>>, NoError)
        ELSE IF element.raw THEN ev(l.v, Sprint(l.v), NoError)
        ELSE written(l.v, valueString(t, l.v))
      partial(g, e) ==
        IF g.panic THEN Panicked(<<>>, <<e>>)
        ELSE IF g.err # NoError
        THEN IF t.errorOnMissing THEN Failed(<<>>, g.err, <<e>>) ELSE Done(<<>>, <<e>>)
        ELSE Then(Done(<<>>, <<e>>), renderTemplate(g.tmpl, g.r, contextChain))
      got(g) == partial(g, partialEvent(element, g))
  IN CASE element.type = "text" -> Done(element.text, <<textEvent(element)>>)
       [] element.type = "var" ->
            found(lookup(contextChain, element.name, t.errorOnMissing))
       [] element.type = "section" -> renderSection(t, r, element, contextChain)
       [] element.type = "partial" ->
            got(getPartials(element.prov, element.name, element.indent))
       [] OTHER -> Done(<<>>, <<>>)

\* Frender / Render: the chain holds reflect.ValueOf of every argument, in
\* the order given.
Render(t, r, context) == renderTemplate(t, r, context)

ContentKey == <<"c", "o", "n", "t", "e", "n", "t">>

\* FRenderInLayout: the receiver is rendered by Render; its error is returned
\* before anything is written; otherwise the layout is rendered against
\* map[string]string{"content": content} followed by the contexts given.
FRenderInLayout(t, r, layout, lr, context) ==
  LET laid(c) ==
        IF c.panic THEN Panicked(<<>>, <<>>)
        ELSE IF c.err # NoError THEN Failed(<<>>, c.err, <<>>)
        ELSE Render(layout, lr, <<MapV(ContentKey :> StrV(c.out))>> \o context)
  IN laid(Render(t, r, context))

\* A RenderInLayout that puts the content map after the contexts given.
RenderInLayout_ContentLast(t, r, layout, lr, context) ==
  LET returned(a) == IF a.err # NoError THEN [a EXCEPT !.out = <<>>] ELSE a
      laid(c) ==
        IF c.panic THEN Panicked(<<>>, <<>>)
        ELSE IF c.err # NoError THEN Failed(<<>>, c.err, <<>>)
        ELSE Render(layout, lr, context \o <<MapV(ContentKey :> StrV(c.out))>>)
  IN returned(laid(Render(t, r, context)))

\* RenderInLayout: the buffer's text, or "" with the error.
RenderInLayout(t, r, layout, lr, context) ==
  LET returned(a) == IF a.err # NoError THEN [a EXCEPT !.out = <<>>] ELSE a
  IN returned(FRenderInLayout(t, r, layout, lr, context))

(***************************************************************************)
(* The inputs of the model: template sources, host data, context lists     *)
(***************************************************************************)
MaxContexts == 2

MaxTokens == 3

N(c) == <<c>>

OT == <<"{", "{">>

CT == <<"}", "}">>

VarTag(name) == OT \o name \o CT

Raw3Tag(name) == OT \o <<"{">> \o name \o <<"}">> \o CT

RawAmpTag(name) == OT \o <<"&">> \o name \o CT

SecTags(name, body) == OT \o <<"#">> \o name \o CT \o body \o OT \o <<"/">> \o name \o CT

InvTags(name, body) == OT \o <<"^">> \o name \o CT \o body \o OT \o <<"/">> \o name \o CT

PartialTag(name) == OT \o <<">">> \o name \o CT

HtmlStr == StrV(<<"<", "&", ">", "\"", "'", "a">>)

User == StructV((N("I") :> IntV(1)) @@ (N("M") :> StrV(<<"M">>)),
                (N("F") :> Method(1, <<StrV(<<"f", "<">>)>>))
                  @@ (N("G") :> Method(2, <<StrV(<<"g">>)>>))
                  @@ (N("V") :> Method(1, <<>>)))

ZeroUser == StructV((N("I") :> IntV(0)) @@ (N("M") :> StrV(<<>>)), NoMethods)

\* The first context of the tests: a map[string]interface{} with an entry for
\* every kind of value.
Data ==
  MapV((N("t") :> BoolV(TRUE)) @@ (N("f") :> BoolV(FALSE))
       @@ (N("z") :> IntV(0)) @@ (N("o") :> IntV(12))
       @@ (N("e") :> StrV(<<>>)) @@ (N("w") :> StrV(<<"\t">>)) @@ (N("r") :> StrV(<<"R">>))
       @@ (N("h") :> HtmlStr) @@ (N("n") :> NilV)
       @@ (N("l") :> SliceV(<<StrV(<<"a">>), StrV(<<"<">>)>>))
       @@ (N("k") :> SliceV(<<IntV(0)>>)) @@ (N("v") :> SliceV(<<>>))
       @@ (N("m") :> MapV((N("x") :> StrV(<<"i">>)) @@ (N("c") :> StrV(<<"&">>))))
       @@ (N("q") :> MapV(<<>>)) @@ (N("g") :> NilMap)
       @@ (N("u") :> User) @@ (N("y") :> ZeroUser)
       @@ (N("p") :> PtrV(User, User.methods @@ (N("Q") :> Method(1, <<StrV(<<"p">>)>>))))
       @@ (N("d") :> NilPtr)
       @@ (N("L") :> FuncV("ok")) @@ (N("E") :> FuncV("err")) @@ (N("R") :> FuncV("render"))
       @@ (N("x") :> StrV(<<"o">>))
       @@ (N("a") :> MapV(N("b") :> MapV(N("x") :> StrV(<<"D">>)))))

\* A second map: it defines x and j, and r as empty.
Other ==
  MapV((N("x") :> StrV(<<"2">>)) @@ (N("j") :> StrV(<<"J">>)) @@ (N("r") :> StrV(<<>>))
       @@ (N("V") :> StrV(<<"v">>)))

Contexts == {Data, Other, StrV(<<"s">>), Invalid}

ContextLists == UNION {[1..n -> Contexts] : n \in 0..MaxContexts}

Keys == DOMAIN Data.m

PlainNames == Keys \cup {N("j"), N("M"), N("F"), N("V"), N("."), <<"d", "n", "e">>}

DottedNames ==
  {<<"a", ".", "b", ".", "x">>, <<"a", ".", "x">>, <<"a", ".", "b", ".", "t">>,
   <<"i", ".", "x">>, <<"m", ".", "c">>, <<"u", ".", "M">>, <<"p", ".", "F">>,
   <<"x", ".", "x">>, <<"u", ".", "V">>}

Body == <<"[">> \o VarTag(N(".")) \o <<",">> \o VarTag(N("x")) \o <<"]">>

Templates ==
  {<<"A">> \o VarTag(n) \o <<"B">> : n \in PlainNames \cup DottedNames}
  \cup {Raw3Tag(n) \o RawAmpTag(n) : n \in {N("h"), N("x"), N("o"), <<"i">>, <<"m", ".", "c">>}}
  \cup {<<"A">> \o SecTags(k, Body) \o <<"B">> : k \in Keys \cup {N("i"), N("F"), <<"a", ".", "b">>}}
  \cup {<<"A">> \o InvTags(k, Body) \o <<"B">> : k \in Keys \cup {N("i")}}
  \cup {SecTags(N("t"), VarTag(N("h")) \o Raw3Tag(N("h")) \o RawAmpTag(N("h"))),
        SecTags(N("m"), SecTags(N("l"), VarTag(N("x")) \o VarTag(N("c")) \o VarTag(N("j")))),
        SecTags(N("l"), InvTags(N("f"), VarTag(N(".")))),
        SecTags(N("a"), VarTag(<<"b", ".", "x">>) \o VarTag(<<"b", ".", "t">>)),
        VarTag(N("x")) \o SecTags(N("E"), <<"i">>) \o <<"B">> \o VarTag(N("x")),
        <<"A">> \o SecTags(N("l"), VarTag(N(".")) \o SecTags(N("E"), <<>>)) \o VarTag(N("x")),
        SecTags(N("t"), SecTags(N("E"), <<>>) \o <<"i">>) \o SecTags(N("t"), <<"j">>),
        <<"A">> \o SecTags(N("E"), <<>>) \o PartialTag(N("P")),
        <<"A">> \o SecTags(N("L"), <<>>) \o PartialTag(N("P")),
        <<"A">> \o PartialTag(N("P")) \o <<"B">> \o VarTag(N("x")),
        SecTags(N("l"), PartialTag(N("P"))) \o PartialTag(N("P")),
        SecTags(N("R"), Raw3Tag(N("h")) \o RawAmpTag(N("x"))),
        SecTags(N("R"), <<"A">> \o PartialTag(N("P"))),
        SecTags(N("u"), VarTag(N("V"))),
        <<"H">> \o VarTag(ContentKey) \o VarTag(N("h")),
        <<"A">> \o SecTags(N("R"), VarTag(N("h")) \o SecTags(N("l"), VarTag(N("."))))
          \o <<"B">>,
        <<"A">> \o SecTags(N("R"), SecTags(N("E"), <<>>)) \o <<"B">>,
        <<"A">> \o VarTag(N("i")) \o <<"B">> \o VarTag(N("x")),
        SecTags(N("e"), <<"1">>) \o InvTags(N("t"), <<"2">>) \o SecTags(N("t"), <<"3">>)
          \o InvTags(N("e"), <<"4">>) \o SecTags(N("L"), <<"5">>),
        SecTags(N("w"), <<"1">>) \o SecTags(N("k"), <<"2">>) \o SecTags(N("r"), <<"3">>)
          \o SecTags(N("i"), <<"4">>) \o SecTags(N("n"), <<"5">>)}

\* The layout of the model: the content raw and escaped, and a name of the
\* caller's contexts.
Layout ==
  <<"[">> \o Raw3Tag(ContentKey) \o <<"|">> \o VarTag(ContentKey) \o <<"|">>
    \o VarTag(N("x")) \o <<"]">>

\* A context that defines content itself.
Page == MapV((ContentKey :> StrV(<<"W">>)) @@ (N("x") :> StrV(<<"3">>)))

LayoutContextLists == UNION {[1..n -> {Data, Page, Invalid}] : n \in 0..MaxContexts}

Provider == StaticProvider(N("P") :> (<<"p">> \o VarTag(N("x"))))

\* What the provider holds once the caller has changed its map.
Provider2 == StaticProvider(N("P") :> <<"q">>)

\* The elements with every reference to the provider seeing its new contents.
RECURSIVE Rebound(_, _)
Rebound(elems, prov) ==
  [i \in 1..Len(elems) |->
     CASE elems[i].type = "partial" -> [elems[i] EXCEPT !.prov = prov]
       [] elems[i].type = "section" -> [elems[i] EXCEPT !.elems = Rebound(@, prov)]
       [] OTHER -> elems[i]]

NoRender == [out |-> <<>>, err |-> NoError, panic |-> FALSE, log |-> <<>>]

Idle == [NewTemplate(New, <<>>) EXCEPT !.status = "idle"]

(***************************************************************************)
(* The Compiler's life: configure, compile once, render once               *)
(***************************************************************************)
Init ==
  /\ comp = New
  /\ tmpl = NilTemplate
  /\ cerr = NoError
  /\ ps = Idle
  /\ toks = <<>>
  /\ ctx = <<>>
  /\ res = NoRender
  /\ op = "New"

Configuring == op \in {"New", "With"}

WithPartials ==
  /\ Configuring
  /\ comp' = [comp EXCEPT !.partial = Provider]
  /\ op' = "With"
  /\ UNCHANGED <<tmpl, cerr, ps, toks, ctx, res>>

\* WithPartials with a provider whose Get fails.
WithFailingPartials ==
  /\ Configuring
  /\ comp' = [comp EXCEPT !.partial = FailingProvider]
  /\ op' = "With"
  /\ UNCHANGED <<tmpl, cerr, ps, toks, ctx, res>>

\* The stringers of the model: none, or "quote" (see valueString).
WithValueStringer ==
  /\ Configuring
  /\ \E vs \in {"nil", "quote"} : comp' = [comp EXCEPT !.valueStringer = vs]
  /\ op' = "With"
  /\ UNCHANGED <<tmpl, cerr, ps, toks, ctx, res>>

WithEscapeMode ==
  /\ Configuring
  /\ \E m \in {"EscapeHTML", "EscapeJSON", "Raw"} : comp' = [comp EXCEPT !.outputMode = m]
  /\ op' = "With"
  /\ UNCHANGED <<tmpl, cerr, ps, toks, ctx, res>>

WithErrors ==
  /\ Configuring
  /\ \E b \in BOOLEAN : comp' = [comp EXCEPT !.errorOnMissing = b]
  /\ op' = "With"
  /\ UNCHANGED <<tmpl, cerr, ps, toks, ctx, res>>

CompileStringOp ==
  /\ Configuring
  /\ \E data \in Templates :
       LET returns(c) ==
             /\ ~c.panic
             /\ tmpl' = c.tmpl
             /\ cerr' = c.err
       IN returns(CompileString(comp, data))
  /\ op' = "CompileString"
  /\ UNCHANGED <<comp, ps, toks, ctx, res>>

RenderOp ==
  /\ op = "CompileString"
  /\ tmpl # NilTemplate
  /\ \E context \in ContextLists :
       /\ ctx' = context
       /\ res' = Render(tmpl, comp, context)
  /\ op' = "Render"
  /\ UNCHANGED <<comp, tmpl, cerr, ps, toks>>

\* RenderInLayout with a layout compiled by the same Compiler; res keeps the
\* layout next to what was returned.
RenderInLayoutOp ==
  /\ op = "CompileString"
  /\ tmpl # NilTemplate
  /\ \E context \in LayoutContextLists :
       LET returned(l, a) ==
             res' = [out |-> a.out, err |-> a.err, panic |-> a.panic, log |-> a.log,
                     layout |-> l]
           compiled(c) ==
             returned(c.tmpl, RenderInLayout(tmpl, comp, c.tmpl, comp, context))
       IN /\ ctx' = context
          /\ compiled(CompileString(comp, Layout))
  /\ op' = "RenderInLayout"
  /\ UNCHANGED <<comp, tmpl, cerr, ps, toks>>

\* A render that changes the template it renders: it leaves the cursor of
\* the parse at the start and the elements it went through dropped.
RenderAgainOp_Consuming ==
  /\ op \in {"Render", "Render again"}
  /\ ~res.panic
  /\ res' = Render(tmpl, comp, ctx)
  /\ tmpl' = [tmpl EXCEPT !.p = 0, !.elems = <<>>]
  /\ op' = "Render again"
  /\ UNCHANGED <<comp, cerr, ps, toks, ctx>>

\* One more Render of the same template against the same contexts, after a
\* Render that returned.
RenderAgainOp ==
  /\ op \in {"Render", "Render again"}
  /\ ~res.panic
  /\ res' = Render(tmpl, comp, ctx)
  /\ op' = "Render again"
  /\ UNCHANGED <<comp, tmpl, cerr, ps, toks, ctx>>

\* A change of the provider that the compiled template does not see.
SetPartialsOp_CompilerOnly ==
  /\ op = "Render"
  /\ ~res.panic
  /\ comp.partial = Provider
  /\ comp' = [comp EXCEPT !.partial = Provider2]
  /\ op' = "Set"
  /\ UNCHANGED <<tmpl, cerr, ps, toks, ctx, res>>

\* The caller changes the map of the StaticProvider after a Render.  The
\* Compiler, the template and its partial elements hold the provider by
\* pointer, so all of them see the new contents.
SetPartialsOp ==
  /\ op = "Render"
  /\ ~res.panic
  /\ comp.partial = Provider
  /\ comp' = [comp EXCEPT !.partial = Provider2]
  /\ tmpl' = [tmpl EXCEPT !.partial = Provider2, !.elems = Rebound(@, Provider2)]
  /\ op' = "Set"
  /\ UNCHANGED <<cerr, ps, toks, ctx, res>>

\* The Render after the change, against the same contexts.
RenderChangedOp ==
  /\ op = "Set"
  /\ res' = Render(tmpl, comp, ctx)
  /\ op' = "Render again"
  /\ UNCHANGED <<comp, tmpl, cerr, ps, toks, ctx>>

\* WithEscapeMode or WithErrors called on the Compiler after it has compiled
\* the template: the call changes the Compiler, which the template holds as
\* its parent, and none of the template's own fields.
ReconfigureOp ==
  /\ op = "CompileString"
  /\ tmpl # NilTemplate
  /\ \E c \in {[comp EXCEPT !.outputMode = m] : m \in {"EscapeHTML", "EscapeJSON", "Raw"}}
              \cup {[comp EXCEPT !.errorOnMissing = b] : b \in BOOLEAN} :
       /\ c # comp
       /\ comp' = c
  /\ op' = "With after CompileString"
  /\ UNCHANGED <<tmpl, cerr, ps, toks, ctx, res>>

\* Render of the template whose Compiler was configured again.
RenderReconfiguredOp ==
  /\ op = "With after CompileString"
  /\ \E context \in ContextLists :
       /\ ctx' = context
       /\ res' = Render(tmpl, comp, context)
  /\ op' = "Render"
  /\ UNCHANGED <<comp, tmpl, cerr, ps, toks>>

Next ==
  \/ WithPartials \/ WithEscapeMode \/ WithErrors
  \/ CompileStringOp \/ RenderOp

Spec == Init /\ [][Next]_vars

\* The same with a custom stringer among the options.
SpecStringer == Init /\ [][Next \/ WithValueStringer]_vars

\* The same with a failing provider among the options.
SpecPartials == Init /\ [][Next \/ WithFailingPartials]_vars

\* The same with renders repeated.
SpecAgain == Init /\ [][Next \/ RenderAgainOp]_vars

\* The options, CompileString and RenderInLayout.
SpecProvider == Init /\ [][Next \/ SetPartialsOp \/ RenderChangedOp]_vars

SpecReconfigure == Init /\ [][Next \/ ReconfigureOp \/ RenderReconfiguredOp]_vars

SpecLayout ==
  Init /\ [][WithPartials \/ WithEscapeMode \/ WithErrors \/ CompileStringOp
               \/ RenderInLayoutOp]_vars

(***************************************************************************)
(* CompileString, one iteration of the parse loops at a time, on sources   *)
(* put together from the pieces a template is made of                      *)
(***************************************************************************)
Tokens ==
  <<OT, CT,
    OT \o <<"#", "a">> \o CT, OT \o <<"^", "b">> \o CT,
    OT \o <<"/", "a">> \o CT, OT \o <<"/", "b">> \o CT,
    VarTag(N("x")), Raw3Tag(N("x")), OT \o <<"!", "c">> \o CT, PartialTag(N("p")),
    OT \o <<"=", "|", " ", "|", "=">> \o CT, <<"|", "/", "a", "|">>,
    OT \o <<"=", "|", " ", "=">> \o CT, OT \o <<"=">> \o CT, OT \o <<"#">> \o CT,
    <<"\n">>, <<" ">>, <<"t">>, <<"\r">>, VarTag(<<"<", "x">>),
    OT \o <<" ", "{", "x">> \o CT >>

TokenLists == UNION {[1..n -> 1..Len(Tokens)] : n \in 0..MaxTokens}

Source(ts) == Concat([i \in 1..Len(ts) |-> Tokens[ts[i]]])

InitParse ==
  /\ comp = New
  /\ toks \in TokenLists
  /\ ps = NewTemplate(New, Source(toks))
  /\ tmpl = NilTemplate
  /\ cerr = NoError
  /\ ctx = <<>>
  /\ res = NoRender
  /\ op = "CompileString"

\* One turn of the loop; when parse returns, CompileString returns.
ParseStepOp ==
  /\ ps.status = "run"
  /\ ps' = ParseStep(ps)
  /\ IF ps'.status = "run"
     THEN UNCHANGED <<tmpl, cerr, op>>
     ELSE /\ tmpl' = Returned(ps').tmpl
          /\ cerr' = Returned(ps').err
          /\ op' = IF Returned(ps').panic THEN "panic" ELSE "Returned"
  /\ UNCHANGED <<comp, toks, ctx, res>>

NextParse == ParseStepOp

SpecParse == InitParse /\ [][NextParse]_vars

(***************************************************************************)
(* JSONEscape on its own, on every string of a few runes                   *)
(***************************************************************************)
MaxRunes == 2

Runes ==
  {"\"", "\\", "\n", "U+0008", "\f", "\r", "\t", "U+001c", "U+007f", "U+009f",
   "'", "a", "U+00e9", "U+1f99c"}

\* ctx holds the argument data, res what was written to dest.
InitJSON ==
  /\ comp = New
  /\ tmpl = NilTemplate
  /\ cerr = NoError
  /\ ps = Idle
  /\ toks = <<>>
  /\ ctx \in {<<StrV(data)>> : data \in UNION {[1..n -> Runes] : n \in 0..MaxRunes}}
  /\ res = NoRender
  /\ op = "call"

JSONEscapeOp ==
  /\ op = "call"
  /\ res' = [NoRender EXCEPT !.out = JSONEscape(ctx[1].s)]
  /\ op' = "JSONEscape"
  /\ UNCHANGED <<comp, tmpl, cerr, ps, toks, ctx>>

SpecJSON == InitJSON /\ [][JSONEscapeOp]_vars

(***************************************************************************)
(* What the render did, for the properties below                           *)
(***************************************************************************)
Events == {res.log[i] : i \in 1..Len(res.log)}

VarEvents == {e \in Events : e.ev = "var"}

SectionEvents == {e \in Events : e.ev = "section"}

\* Some entry of the value defines the segment: a key of a map, a field of a
\* struct, or a method without arguments, through any pointers.
RECURSIVE Defines(_, _)
Defines(v, seg) ==
  /\ v.kind # "invalid"
  /\ \/ seg \in DOMAIN Methods(v) /\ Methods(v)[seg].numIn = 1
     \/ seg = <<".">>
     \/ v.kind = "ptr" /\ Defines(v.elem, seg)
     \/ v.kind = "map" /\ seg \in DOMAIN v.m
     \/ v.kind = "struct" /\ seg \in DOMAIN v.fields

\* The value a defining entry gives the segment.
RECURSIVE ValueIn(_, _)
ValueIn(v, seg) ==
  IF seg \in DOMAIN Methods(v) /\ Methods(v)[seg].numIn = 1
  THEN IF Methods(v)[seg].results = <<>> THEN Invalid ELSE Methods(v)[seg].results[1]
  ELSE IF seg = <<".">> THEN v
  ELSE CASE v.kind = "ptr" -> ValueIn(v.elem, seg)
         [] v.kind = "map" -> v.m[seg]
         [] v.kind = "struct" -> v.fields[seg]
         [] OTHER -> Invalid

Defining(chain, seg) == {i \in 1..Len(chain) : Defines(chain[i], seg)}

\* The value of a segment in a chain, scanned from the front.
FirstValue(chain, seg) ==
  IF Defining(chain, seg) = {} THEN Invalid
  ELSE ValueIn(chain[Min(Defining(chain, seg))], seg)

\* The segments of a name.
RECURSIVE Segments(_)
Segments(name) ==
  IF IsDotted(name)
  THEN <<SplitN2(name, ".")[1]>> \o Segments(SplitN2(name, ".")[2])
  ELSE <<name>>

\* The values of the segments of a name, each later segment looked for in the
\* value of the one before it and nowhere else.
RECURSIVE Walk(_, _)
Walk(chain, segs) ==
  IF segs = <<>> THEN <<>>
  ELSE <<FirstValue(chain, Head(segs))>> \o Walk(<<FirstValue(chain, Head(segs))>>, Tail(segs))

\* The first segment of a name that no entry defines, <<>> if there is none.
RECURSIVE Unresolved(_, _)
Unresolved(chain, segs) ==
  IF segs = <<>> THEN <<>>
  ELSE IF Defining(chain, Head(segs)) = {} THEN Head(segs)
  ELSE Unresolved(<<FirstValue(chain, Head(segs))>>, Tail(segs))

(***************************************************************************)
(* C1                                                                      *)
(***************************************************************************)
C1_Entity ==
  (<<"&", "#", "3", "4", ";">> :> "\"") @@ (<<"&", "#", "3", "9", ";">> :> "'")
    @@ (<<"&", "a", "m", "p", ";">> :> "&") @@ (<<"&", "l", "t", ";">> :> "<")
    @@ (<<"&", "g", "t", ";">> :> ">")

\* The entities that start at position i of s.
C1_EntityAt(s, i) ==
  {e \in DOMAIN C1_Entity : i + Len(e) - 1 <= Len(s) /\ SubSeq(s, i, i + Len(e) - 1) = e}

\* Position i of s lies in an entity that starts before it.
C1_InEntity(s, i) ==
  \E j \in 1..(i - 1) : \E e \in C1_EntityAt(s, j) : j + Len(e) > i

\* s read back: every entity replaced by its character.  FALSE in ok when one
\* of the five characters stands in s outside an entity.
C1_Unescape(s) ==
  [ok |-> \A i \in 1..Len(s) :
            s[i] \in {"&", "<", ">", "\"", "'"} => C1_EntityAt(s, i) # {},
   s |-> Concat([i \in 1..Len(s) |->
                   IF C1_EntityAt(s, i) # {}
                   THEN <<C1_Entity[CHOOSE e \in C1_EntityAt(s, i) : TRUE]>>
                   ELSE IF C1_InEntity(s, i) THEN <<>> ELSE <<s[i]>>])]

\* C1: in HTML mode a variable that is not raw writes its stringified value
\* with each of & < > " ' replaced by an HTML entity and nothing else changed,
\* and a raw variable writes the stringified value as it is; at the top level
\* and inside sections alike.
C1_EscapedVsRaw ==
  \A e \in VarEvents :
    e.t.outputMode = "EscapeHTML" /\ e.t.valueStringer = "nil"
      /\ e.err = NoError /\ e.value.kind # "invalid"
    => IF e.raw
       THEN e.out = Sprint(e.value)
       ELSE C1_Unescape(e.out) = [ok |-> TRUE, s |-> Sprint(e.value)]

\* Inside a section, the same string holding all five characters is written
\* once escaped and once raw.
C1_Witness ==
  \E e1, e2 \in VarEvents :
    /\ e1.chain = e2.chain /\ Len(e1.chain) > Len(ctx)
    /\ e1.t.outputMode = "EscapeHTML" /\ e2.t.outputMode = "EscapeHTML"
    /\ e1.value = HtmlStr /\ e2.value = HtmlStr
    /\ ~e1.raw /\ e1.out = <<"&", "l", "t", ";", "&", "a", "m", "p", ";", "&", "g", "t", ";",
                             "&", "#", "3", "4", ";", "&", "#", "3", "9", ";", "a">>
    /\ e2.raw /\ e2.out = HtmlStr.s

(***************************************************************************)
(* C2                                                                      *)
(***************************************************************************)
\* C2: a variable whose name no entry of the chain resolves writes nothing
\* and gives no error while the policy is off; with the policy on, it ends the
\* render with the missing variable error that names the segment not found,
\* be it the plain name, the first segment of a dotted name or a later one.
C2_MissingPolicy ==
  /\ \A e \in VarEvents :
       LET u == Unresolved(e.chain, Segments(e.name))
       IN u # <<>> =>
            IF e.t.errorOnMissing
            THEN /\ e.err = missingVariable(u)
                 /\ e.out = <<>>
                 /\ res.err = e.err
            ELSE /\ e.err = NoError
                 /\ e.out = <<>>
  /\ op = "Render" /\ ~tmpl.errorOnMissing => res.err.kind # "missing"

\* With the policy on, a.b.t fails on its last segment although the chain
\* itself defines t.
C2_Witness ==
  /\ op = "Render"
  /\ tmpl.errorOnMissing
  /\ res.err = missingVariable(<<"t">>)
  /\ \E e \in VarEvents :
       /\ e.name = <<"a", ".", "b", ".", "t">>
       /\ e.err = res.err
       /\ Defining(e.chain, <<"t">>) # {}

(***************************************************************************)
(* C3                                                                      *)
(***************************************************************************)
C3_Skipped(e) == (~e.inverted /\ e.empty) \/ (e.inverted /\ ~e.empty)

C3_Callable(e) == ~e.inverted /\ indirect(e.value).kind = "func"

RECURSIVE C4_Unwrap(_)
C4_Unwrap(v) == IF v.kind = "ptr" THEN C4_Unwrap(v.elem) ELSE v

\* The zero value of the type of v.
RECURSIVE C4_ZeroOf(_)
C4_ZeroOf(v) ==
  CASE v.kind = "bool" -> BoolV(FALSE)
    [] v.kind = "int" -> IntV(0)
    [] v.kind = "map" -> NilMap
    [] v.kind = "func" -> [v EXCEPT !.isnil = TRUE]
    [] v.kind = "struct" ->
         StructV([f \in DOMAIN v.fields |-> C4_ZeroOf(v.fields[f])], v.methods)
    [] OTHER -> v

C4_Empty(v) ==
  LET u == C4_Unwrap(v)
  IN CASE u.kind \in {"invalid", "nil"} -> TRUE
       [] u.kind = "slice" -> Len(u.elems) = 0
       [] u.kind = "string" -> \A i \in 1..Len(u.s) : IsSpace(u.s[i])
       [] OTHER -> u = C4_ZeroOf(u)

\* C4: a section takes its value for empty exactly when the value is
\* unresolved or nil or, pointers unwrapped, a slice of length 0, a string of
\* nothing but whitespace, or a value of another kind equal to its zero value.
C4_Emptiness ==
  \A e \in SectionEvents :
    /\ e.empty = C4_Empty(e.value)
    /\ e.value = SliceV(<<IntV(0)>>) => ~e.empty
    /\ e.value = StrV(<<"\t">>) => e.empty
    /\ e.value = StrV(<<"R">>) => ~e.empty

\* One render over a tab, a one-element slice holding 0, a word, an
\* unresolved name and nil: only the second and third sections are rendered.
C4_Witness ==
  /\ res.out = <<"2", "3">>
  /\ \E e1, e2, e3, e4, e5 \in SectionEvents :
       /\ e1.value = StrV(<<"\t">>) /\ e1.empty
       /\ e2.value = SliceV(<<IntV(0)>>) /\ ~e2.empty
       /\ e3.value = StrV(<<"R">>) /\ ~e3.empty
       /\ e4.value = Invalid /\ e4.empty
       /\ e5.value = NilV /\ e5.empty

(***************************************************************************)
(* C5                                                                      *)
(***************************************************************************)
C5_Rendered(e) == ~C3_Skipped(e) /\ ~C3_Callable(e)

\* The iteration contexts of a rendered section.
C5_Contexts(e) ==
  IF e.inverted THEN <<e.chain[1]>>
  ELSE IF C4_Unwrap(e.value).kind = "slice" THEN C4_Unwrap(e.value).elems
  ELSE <<e.value>>

\* What the children write for one iteration context.
C5_Iteration(e, c) == renderElems(e.t, e.r, e.elems, <<c>> \o e.chain)

\* C5: a rendered section renders its children once per iteration context,
\* in order: the elements of a sequence in index order, the value alone for a
\* map, a struct or another value that is not empty, and for an inverted
\* section the front of the outer chain alone, never the section's own value.
C5_IterationContexts ==
  \A e \in SectionEvents :
    C5_Rendered(e) =>
      /\ e.contexts = C5_Contexts(e)
      /\ e.inverted \/ C4_Unwrap(e.value).kind # "slice" => Len(e.contexts) = 1
      /\ e.err = NoError /\ ~e.panic =>
           e.out = Concat([i \in 1..Len(e.contexts) |-> C5_Iteration(e, e.contexts[i]).out])

\* A sequence of two elements rendered element by element, and in each
\* iteration an inverted section rendered once on that element.
C5_Witness ==
  \E e1, e2 \in SectionEvents :
    /\ ~e1.inverted
    /\ e1.value = SliceV(<<StrV(<<"a">>), StrV(<<"<">>)>>)
    /\ e1.contexts = <<StrV(<<"a">>), StrV(<<"<">>)>>
    /\ e1.out = <<"a", "&", "l", "t", ";">>
    /\ e2.inverted /\ e2.value = BoolV(FALSE)
    /\ e2.contexts = <<StrV(<<"<">>)>>
    /\ e2.chain = <<StrV(<<"<">>)>> \o e1.chain
    /\ e2.out = <<"&", "l", "t", ";">>

(***************************************************************************)
(* C6                                                                      *)
(***************************************************************************)
\* The events that carry the chain they were evaluated against.
ChainEvents == VarEvents \cup SectionEvents

\* C6: the chain is innermost first.  The arguments of Render are the chain
\* of the template, in the order given; every other chain is the chain of a
\* section with one of its iteration contexts put in front; and a name of one
\* segment has the value the first entry from the front that defines it
\* gives, so an inner entry shadows the outer ones and an entry that does not
\* define the name is passed over.
C6_InnermostFirst ==
  \A e \in ChainEvents :
    /\ \/ e.chain = ctx
       \/ \E s \in SectionEvents : \E i \in 1..Len(s.contexts) :
            e.chain = <<s.contexts[i]>> \o s.chain
    /\ ~IsDotted(e.name) => e.value = FirstValue(e.chain, e.name)
    /\ ~IsDotted(e.name) =>
         \A i \in Defining(e.chain, e.name) :
           (\A j \in 1..(i - 1) : ~Defines(e.chain[j], e.name))
             => e.value = ValueIn(e.chain[i], e.name)

\* Render(Data, Other) of {{#m}}{{#l}}{{x}}{{c}}{{j}}{{/l}}{{/m}}: below the
\* element and the map m, x is the x of m although both arguments define x,
\* and j, which only the second argument defines, is found there.
C6_Witness ==
  /\ ctx = <<Data, Other>>
  /\ \E e1, e2 \in VarEvents :
       /\ e1.chain = <<StrV(<<"a">>), Data.m[<<"m">>], Data, Other>>
       /\ e1.name = <<"x">> /\ e1.value = StrV(<<"i">>)
       /\ Defining(e1.chain, e1.name) = {2, 3, 4}
       /\ e2.chain = e1.chain
       /\ e2.name = <<"j">> /\ e2.value = StrV(<<"J">>)
       /\ Defining(e2.chain, e2.name) = {4}

(***************************************************************************)
(* C7                                                                      *)
(***************************************************************************)
\* C7: a dotted name takes its first segment from the whole chain and every
\* later segment from the value of the segment before it and from nowhere
\* else: when that value lacks the segment the name is not found, whatever
\* the entries of the chain define.
C7_DottedNames ==
  \A e \in ChainEvents :
    IsDotted(e.name) =>
      LET segs == Segments(e.name)
          vals == Walk(e.chain, segs)
      IN /\ e.value = vals[Len(segs)]
         /\ (\E k \in 2..Len(segs) : ~Defines(vals[k - 1], segs[k])) => e.value = Invalid

\* a.b.t without the policy: a.b is found and has no t, the chain itself
\* defines t, and nothing is written.
C7_Witness ==
  /\ res.out = <<"A", "B">>
  /\ res.err = NoError
  /\ \E e \in VarEvents :
       /\ e.name = <<"a", ".", "b", ".", "t">>
       /\ Walk(e.chain, Segments(e.name))[2] = MapV(<<"x">> :> StrV(<<"D">>))
       /\ Defining(e.chain, <<"t">>) # {}
       /\ e.value = Invalid
       /\ e.out = <<>>

(***************************************************************************)
(* C10                                                                     *)
(***************************************************************************)
\* The places in the log of the lambda sections whose callable returned an
\* error.
C10_Failures ==
  {i \in 1..Len(res.log) :
     /\ res.log[i].ev = "section"
     /\ res.log[i].lambda
     /\ res.log[i].err # NoError}

\* What the events before place i wrote to the buffer of Render.
C10_WrittenBefore(i) ==
  Concat([j \in 1..(i - 1) |->
            LET e == res.log[j]
            IN IF e.buf = 0 /\ (e.ev \in {"text", "var"} \/ (e.ev = "section" /\ e.lambda))
               THEN e.out ELSE <<>>])

\* C10: when the callable of a lambda section returns an error, Render
\* returns that error whatever the missing variable policy is, its output is
\* what was written before the section, and nothing is rendered after the
\* section: the events after it are the returns of the sections around it,
\* with the same error.
C10_LambdaErrorStops ==
  \A i \in C10_Failures :
    /\ res.err = res.log[i].err
    /\ ~res.panic
    /\ res.out = C10_WrittenBefore(i)
    /\ \A j \in (i + 1)..Len(res.log) :
         /\ res.log[j].ev = "section"
         /\ res.log[j].err = res.log[i].err

\* {{x}}{{#E}}i{{/E}}B{{x}} without the policy: the x before the section is
\* written, the error of the callable is returned, and neither B nor the
\* second x is rendered.
C10_Witness ==
  /\ op = "Render"
  /\ ~tmpl.errorOnMissing
  /\ \E k \in 1..Len(tmpl.elems) : tmpl.elems[k] = textElement(<<"B">>)
  /\ res.err = lambdaError
  /\ res.out = <<"o">>
  /\ C10_Failures = {Len(res.log)}

(***************************************************************************)
(* C8  Structural defects                                                  *)
(***************************************************************************)
\* The pieces of Tokens that are read without opening or closing anything:
\* a variable, a raw variable, a comment, a partial, a line break, a blank, text.
C8_Benign == {7, 8, 9, 10, 16, 17, 18}

\* toks[k] is the first piece of the source that is not benign.
C8_First(k) == k \in 1..Len(toks) /\ \A i \in 1..(k - 1) : toks[i] \in C8_Benign

C8_Opens == {3, 4, 15}

\* A tag opened but never closed: an open delimiter with no close delimiter
\* anywhere after it.
C8_NeverClosed ==
  \E k \in 1..Len(toks) :
    /\ C8_First(k) /\ toks[k] = 1
    /\ \A i \in (k + 1)..Len(toks) : toks[i] \in {1, 12, 16, 17, 18}

\* An empty tag body after trimming: nothing but white space between the
\* delimiters.
C8_EmptyTag ==
  \E k \in 1..Len(toks) : \E m \in (k + 1)..Len(toks) :
    /\ C8_First(k) /\ toks[k] = 1 /\ toks[m] = 2
    /\ \A i \in (k + 1)..(m - 1) : toks[i] \in {16, 17}

\* A close tag at top level with no open section.
C8_TopLevelClose == \E k \in 1..Len(toks) : C8_First(k) /\ toks[k] \in {5, 6}

\* A close tag whose name differs from the innermost open section.
C8_WrongClose ==
  \E k \in 1..Len(toks) : \E m \in (k + 1)..Len(toks) :
    /\ C8_First(k) /\ toks[k] \in C8_Opens /\ toks[m] \in {5, 6}
    /\ \A i \in (k + 1)..(m - 1) : toks[i] \in C8_Benign
    /\ ~(toks[k] = 3 /\ toks[m] = 5)
    /\ ~(toks[k] = 4 /\ toks[m] = 6)

\* A section still open at end of input.
C8_StillOpen ==
  \E k \in 1..Len(toks) :
    /\ C8_First(k) /\ toks[k] \in C8_Opens
    /\ \A i \in (k + 1)..Len(toks) : toks[i] \in C8_Benign

C8_Lines == 1..(1 + Cardinality({i \in 1..Len(ps.data) : ps.data[i] = "\n"}))

\* CompileString has returned (nil, err), err a parse error with this message
\* and a line of the source.
C8_Rejected(message) ==
  /\ op = "Returned"
  /\ tmpl = NilTemplate
  /\ cerr.kind = "parse" /\ cerr.message = message
  /\ cerr.line >= 1 /\ cerr.line \in C8_Lines

\* C8: once CompileString has returned, each structural defect of the source
\* (a tag never closed, an empty tag, a close tag at top level, a close tag
\* that names another section than the innermost open one, a section open at
\* the end of input) has given a nil template and a parse error with a line
\* number >= 1; and whenever an error is returned, the template is nil.
C8_StructuralErrors ==
  /\ cerr # NoError => tmpl = NilTemplate /\ cerr.kind = "parse" /\ cerr.line >= 1
  /\ tmpl # NilTemplate => cerr = NoError
  /\ op # "CompileString" =>
       /\ C8_NeverClosed => C8_Rejected("unmatched open tag")
       /\ C8_EmptyTag => C8_Rejected("empty tag")
       /\ C8_TopLevelClose => C8_Rejected("unmatched close tag")
       /\ C8_WrongClose => C8_Rejected("interleaved closing tag: ")
       /\ C8_StillOpen => C8_Rejected("Section has no closing tag")

\* C8 witness: {{#a}}, a line break, {{/b}} has been compiled; the close tag
\* on line 2 names another section and CompileString has returned nil and
\* the error of line 2.
C8_Witness ==
  /\ op = "Returned"
  /\ C8_WrongClose
  /\ toks = <<3, 16, 6>>
  /\ tmpl = NilTemplate
  /\ cerr = parseError(2, "interleaved closing tag: ", <<"b">>)

(***************************************************************************)
(* C9  CompileString terminates and does not crash                         *)
(***************************************************************************)
\* One turn of a parse loop: no index out of range and no search for an empty
\* delimiter; the cursor stays within the input and does not move back; a
\* turn after which the loop goes on has moved it forward, so that the turns
\* are fewer than the bytes of the input plus one; and the turn on which
\* parse returns makes CompileString return a template or an error, not both.
C9_Step ==
  /\ ps'.status # "panic" /\ op' # "panic"
  /\ ps'.otag # <<>> /\ ps'.ctag # <<>>
  /\ ps.p <= ps'.p /\ ps'.p <= Len(ps'.data)
  /\ ps'.status = "run" => ps.p < ps'.p
  /\ ps'.steps <= Len(ps'.data) + 1
  /\ ps'.status # "run" =>
       /\ op' = "Returned"
       /\ (tmpl' = NilTemplate) # (cerr' = NoError)

\* C9: on every input, each step of CompileString keeps the cursor within
\* the input, strictly advances it whenever the parse loop continues, never
\* indexes out of range nor searches for an empty delimiter, and the last
\* step returns either a template or an error.  The number of steps taken
\* is at most the length of the input plus one.
C9_TerminatesWithoutCrash == [][C9_Step]_vars

\* C9 witness: {{#a}}{{=| |=}}|/a| has been compiled to a template: a
\* section opened, the delimiters changed inside it, the section closed with
\* the new delimiters, in three turns of the loops and a last one at the end
\* of the input.
C9_Witness ==
  /\ op = "Returned"
  /\ toks = <<3, 11, 12>>
  /\ ps.status = "ok" /\ ps.steps = 4 /\ ps.p = Len(ps.data)
  /\ ps.otag = <<"|">> /\ ps.ctag = <<"|">>
  /\ cerr = NoError
  /\ tmpl.elems[Len(tmpl.elems) - 1].type = "section"

(***************************************************************************)
(* C11  Lambda sections                                                    *)
(***************************************************************************)
C11_Lambdas == {e \in SectionEvents : e.lambda}

\* What the callable "ok" returns: a string with an HTML character and a tag.
C11_Returned == <<"<", "{", "{", "x", "}", "}">>

\* What was written to the caller's buffer, put together from the log: the
\* texts, the variables, and the strings the callables returned.
C11_Written ==
  Concat([i \in 1..Len(res.log) |->
            IF /\ res.log[i].buf = 0
               /\ \/ res.log[i].ev \in {"text", "var"}
                  \/ res.log[i].ev = "section" /\ res.log[i].lambda
            THEN res.log[i].out
            ELSE <<>>])

\* The section's text compiled by the parent Compiler and rendered against
\* the chain the section was rendered with.
C11_Callback(e) ==
  renderTemplate(CompileString(e.r, getSectionText(e.elems)).tmpl, e.r, e.chain)

\* C11: a non-inverted section whose value is a callable does not iterate
\* its children; what the callable returns is written once and as it is, in
\* every escape mode and with its tags left alone; and the render callback
\* renders the section's text against the chain the section was rendered
\* with, the lambda value not put in front.
C11_LambdaVerbatim ==
  /\ \A e \in C11_Lambdas :
       /\ ~e.inverted /\ indirect(e.value).kind = "func"
       /\ e.contexts = <<>>
       /\ indirect(e.value).fn = "ok" => e.err = NoError /\ e.out = C11_Returned
       /\ indirect(e.value).fn = "err" => e.err = lambdaError /\ e.out = <<>>
       /\ indirect(e.value).fn = "render" =>
            /\ CompileString(e.r, getSectionText(e.elems)).err = NoError
            /\ e.err = C11_Callback(e).err
            /\ e.panic = C11_Callback(e).panic
            /\ ~Stopped(C11_Callback(e)) => e.out = C11_Callback(e).out
  /\ \A e \in SectionEvents :
       ~e.inverted /\ ~e.empty /\ indirect(e.value).kind = "func" => e.lambda
  /\ op = "Render" => res.out = C11_Written

\* C11 witness: in JSON mode, {{#R}}[{{.}},{{x}}]{{/R}} between A and B has
\* been rendered against two contexts: the callback rendered the section's
\* text against the two, and what the callable returned stands once
\* between A and B.
C11_Witness ==
  /\ op = "Render" /\ res.err = NoError /\ ~res.panic
  /\ comp.outputMode = "EscapeJSON"
  /\ ctx = <<Data, Other>>
  /\ \E e \in C11_Lambdas :
       /\ indirect(e.value).fn = "render"
       /\ e.chain = ctx
       /\ e.out = C11_Callback(e).out /\ Len(e.out) > 3
       /\ res.out = <<"A">> \o e.out \o <<"B">>

(***************************************************************************)
(* C12  Raw variables and the stringer                                     *)
(***************************************************************************)
\* The raw variables that resolved to a value, rendered by a Template with a
\* custom stringer.
C12_RawWithStringer ==
  {e \in VarEvents : e.raw /\ e.err = NoError /\ e.value.kind # "invalid"
                     /\ e.t.valueStringer # "nil"}

\* C12: a raw variable ({{{x}}} or {{&x}}) is written without escaping, and
\* what is written is the text the active stringer gives for its value.
C12_RawUsesStringer ==
  \A e \in C12_RawWithStringer : e.out = valueString(e.t, e.value).s

\* What renderElement does instead: a raw variable is written by fmt.Fprint,
\* whatever stringer is configured.
C12_RawUsesSprint ==
  \A e \in C12_RawWithStringer : e.out = Sprint(e.value)

\* A raw variable rendered with the custom stringer, whose output is not what
\* the stringer gives.
C12_Seen ==
  \E e \in C12_RawWithStringer :
    /\ e.name = <<"x">> /\ e.value = StrV(<<"o">>)
    /\ valueString(e.t, e.value).s = <<"[", "o", "]">>
    /\ e.out = <<"o">>

(***************************************************************************)
(* C13                                                                     *)
(***************************************************************************)
\* What the escape of one character must be: the double quote and the
\* backslash with a backslash before them, the five short escapes, \u and
\* four lowercase hexadecimal digits for the other control characters, and
\* the character itself otherwise.
C13_Escape(r) ==
  CASE r = "\"" -> <<"\\", "\"">>
    [] r = "\\" -> <<"\\", "\\">>
    [] r = "\n" -> <<"\\", "n">>
    [] r = "U+0008" -> <<"\\", "b">>
    [] r = "\f" -> <<"\\", "f">>
    [] r = "\r" -> <<"\\", "r">>
    [] r = "\t" -> <<"\\", "t">>
    [] r = "U+001c" -> <<"\\", "u", "0", "0", "1", "c">>
    [] r = "U+007f" -> <<"\\", "u", "0", "0", "7", "f">>
    [] r = "U+009f" -> <<"\\", "u", "0", "0", "9", "f">>
    [] OTHER -> <<r>>

\* C13: JSONEscape writes, for each character of its input and in the order
\* of the input, the escape of that character: a backslash before a double
\* quote or a backslash; \n, \b, \f, \r, \t for newline, backspace, form feed,
\* carriage return and tab; \u and exactly four lowercase hexadecimal digits
\* for any other control character; and the character unchanged otherwise,
\* single quotes and characters outside ASCII included.
C13_JSONEscape ==
  op = "JSONEscape" =>
    LET data == ctx[1].s
    IN /\ ~res.panic /\ res.err = NoError
       /\ res.out = Concat([i \in 1..Len(data) |-> C13_Escape(data[i])])

\* C13 witness: a control character without a short escape followed by a
\* single quote has been escaped.
C13_Witness ==
  /\ op = "JSONEscape"
  /\ ctx[1].s = <<"U+001c", "'">>
  /\ res.out = <<"\\", "u", "0", "0", "1", "c", "'">>

(***************************************************************************)
(* C14  a delimiter change holds for the rest of the parse                 *)
(***************************************************************************)
\* One turn of a parse loop, seen from the source text alone.  The tag of the
\* turn is the first occurrence, from the cursor on, of the open delimiter in
\* force, closed by the close delimiter in force; what stands before it is
\* text, whatever older delimiters it holds.  The pair in force changes in no
\* turn but one whose tag begins with '=', and in no turn that opens or
\* closes a section.
C14_Step ==
  LET d == ps.data
      o == ps.otag
      c == ps.ctag
      depth == Len(ps.stack)
      had == Len(ps.stack[depth].elems)
      opens == {i \in ps.p..(Len(d) - Len(o)) : Match(d, o, i)}
      changed == ps'.otag # o \/ ps'.ctag # c
      recognised(k) ==
        /\ ps'.status = "run" =>
             \E e \in (k + Len(o))..(ps'.p - Len(c)) : Match(d, c, e)
        /\ (ps'.status = "run" /\ Len(ps'.stack) >= depth) =>
             \E j \in ps.p..k :
               /\ \A i \in j..(k - 1) : IsBlank(At(d, i))
               /\ ps'.stack[depth].elems[had + 1] = textElement(Slice(d, ps.p, j))
        /\ changed => At(TrimLeft(Slice(d, k + Len(o), Len(d))), 0) = "="
  IN /\ opens = {} => ~changed /\ ps'.status # "run"
     /\ opens # {} => recognised(Min(opens))
     /\ Len(ps'.stack) # depth => ~changed
     /\ ps'.data = d

\* C14: after a delimiter-change tag every later tag of the parse, the close
\* tag of a section opened before the change and the tags after that section
\* included, is recognised with the new delimiters only, until another
\* delimiter-change tag; closing (or opening) a section never changes or
\* restores the delimiters.
C14_DelimitersPersist == [][C14_Step]_vars

\* C14 witness: in {{#a}}{{=| |=}}|/a| the section opened with {{ }} has been
\* closed by |/a| and the parse goes on, outside the section, with | |.
C14_Witness ==
  /\ toks = <<3, 11, 12>>
  /\ ps.status = "run"
  /\ ps.steps = 3
  /\ Len(ps.stack) = 1
  /\ \E i \in 1..Len(ps.stack[1].elems) :
       ps.stack[1].elems[i].type = "section" /\ ps.stack[1].elems[i].name = <<"a">>
  /\ ps.otag = <<"|">> /\ ps.ctag = <<"|">>

(***************************************************************************)
(* C15  a line that holds one tag and blanks only                          *)
(***************************************************************************)
\* The pieces that are one section, partial, comment or delimiter-change tag,
\* and the pieces that are text.
C15_Tags == {3, 4, 5, 6, 9, 10, 11}

C15_TextPieces == {16, 17, 18, 19}

\* Sources made of whole tags and text: every piece is a tag of C15_Tags, a
\* variable or text, and a change of delimiters is followed by text only.
C15_WellFormed(ts) ==
  /\ \A i \in 1..Len(ts) : ts[i] \in C15_Tags \cup C15_TextPieces \cup {7, 8}
  /\ \A i \in 1..Len(ts) : ts[i] = 11 => \A j \in (i + 1)..Len(ts) : ts[j] \in C15_TextPieces

\* The lines of a source, each with its line feed, the last one perhaps
\* without.
RECURSIVE C15_Lines(_)
C15_Lines(ts) ==
  IF ts = <<>> THEN <<>>
  ELSE LET feeds == {k \in 1..Len(ts) : ts[k] = 16}
           k == IF feeds = {} THEN Len(ts) ELSE Min(feeds)
       IN <<SubSeq(ts, 1, k)>> \o C15_Lines(SubSeq(ts, k + 1, Len(ts)))

\* A line without its terminator: \n, or \r\n, or nothing at the end of the
\* document.
C15_Body(line) ==
  IF line[Len(line)] # 16 THEN line
  ELSE IF Len(line) >= 2 /\ line[Len(line) - 1] = 19 THEN SubSeq(line, 1, Len(line) - 2)
  ELSE SubSeq(line, 1, Len(line) - 1)

\* One tag of C15_Tags and spaces around it.
C15_OneTagOnly(body) ==
  \E k \in 1..Len(body) :
    /\ body[k] \in C15_Tags
    /\ \A j \in 1..Len(body) : j # k => body[j] = 17

\* The text of a line: nothing when it holds one tag only, the text of the
\* line otherwise.
C15_LineText(line, elided) ==
  IF elided THEN <<>>
  ELSE Concat([i \in 1..Len(line) |->
                 IF line[i] \in C15_TextPieces THEN Tokens[line[i]] ELSE <<>>])

\* The text elements of a template, in the order of the document.
RECURSIVE C15_Text(_)
C15_Text(elems) ==
  Concat([i \in 1..Len(elems) |->
            IF elems[i].type = "text" THEN elems[i].text
            ELSE IF elems[i].type = "section" THEN C15_Text(elems[i].elems)
            ELSE <<>>])

\* C15: a line that holds only one section-open, section-close, partial,
\* comment or delimiter-change tag and spaces around it gives no text to the
\* compiled template (neither its leading spaces, nor its trailing spaces,
\* nor its line terminator), whether it ends with \n, with \r\n or with the
\* document; every other line gives its text.
C15_StandaloneElided ==
  (op = "Returned" /\ cerr = NoError /\ C15_WellFormed(toks)) =>
    LET lines == C15_Lines(toks)
    IN C15_Text(tmpl.elems) =
         Concat([i \in 1..Len(lines) |->
                   C15_LineText(lines[i], C15_OneTagOnly(C15_Body(lines[i])))])

\* What the parser does: the same, but a last line whose tag is followed by
\* spaces up to the end of the document is not elided.
C15_ElidedUnlessBlanksEndDocument ==
  (op = "Returned" /\ cerr = NoError /\ C15_WellFormed(toks)) =>
    LET lines == C15_Lines(toks)
        last(i) == i = Len(lines) /\ toks[Len(toks)] = 17
    IN C15_Text(tmpl.elems) =
         Concat([i \in 1..Len(lines) |->
                   C15_LineText(lines[i],
                                C15_OneTagOnly(C15_Body(lines[i])) /\ ~last(i))])

\* C15 case at hand: {{!c}} and a space, the whole document, has been
\* compiled and the space is text of the template.
C15_Seen ==
  /\ op = "Returned" /\ cerr = NoError
  /\ toks = <<9, 17>>
  /\ C15_Text(tmpl.elems) = <<" ">>

(***************************************************************************)
(* C16  an error of the partial provider                                   *)
(***************************************************************************)
\* The partials of the render at hand whose provider reported an error.
C16_GetFailed ==
  {i \in 1..Len(res.log) :
     /\ res.log[i].ev = "partial" /\ res.log[i].buf = 0
     /\ ~res.log[i].panic /\ res.log[i].err # NoError}

\* The elements hold a partial, at any depth.
RECURSIVE C16_HasPartial(_)
C16_HasPartial(elems) ==
  \E i \in 1..Len(elems) :
    \/ elems[i].type = "partial"
    \/ elems[i].type = "section" /\ C16_HasPartial(elems[i].elems)

\* The first partial of the template is a top-level element.
C16_FirstIsTopLevel(t) ==
  LET at == {i \in 1..Len(t.elems) : t.elems[i].type = "partial"}
  IN /\ at # {}
     /\ \A i \in 1..(Min(at) - 1) :
          t.elems[i].type = "section" => ~C16_HasPartial(t.elems[i].elems)

\* The template up to its first top-level partial, and the elements without
\* their partials.
C16_UpToPartial(t) ==
  LET at == {i \in 1..Len(t.elems) : t.elems[i].type = "partial"}
  IN [t EXCEPT !.elems = SubSeq(@, 1, Min(at) - 1)]

RECURSIVE C16_Without(_)
C16_Without(elems) ==
  LET kept == SelectSeq(elems, LAMBDA e : e.type # "partial")
  IN [i \in 1..Len(kept) |->
        IF kept[i].type = "section"
        THEN [kept[i] EXCEPT !.elems = C16_Without(@)]
        ELSE kept[i]]

C16_WithoutPartials(t) == [t EXCEPT !.elems = C16_Without(@)]

\* C16: when the provider's Get reports an error for a partial, Render
\* returns that error, together with what was written before the partial, if
\* the error policy is enabled; if it is disabled the partial writes nothing
\* and the render goes on with the next element, so that the output and the
\* error are those of the template without the partial.
C16_ProviderError ==
  (op = "Render" /\ C16_GetFailed # {}) =>
    IF tmpl.errorOnMissing
    THEN /\ res.err = partialError(res.log[Min(C16_GetFailed)].name)
         /\ \A j \in (Min(C16_GetFailed) + 1)..Len(res.log) :
              res.log[j].ev = "section" /\ res.log[j].err = res.err
         /\ C16_FirstIsTopLevel(tmpl) => Min(C16_GetFailed) = Len(res.log)
         /\ ~res.panic
         /\ C16_FirstIsTopLevel(tmpl) =>
              res.out = Render(C16_UpToPartial(tmpl), comp, ctx).out
    ELSE /\ res.out = Render(C16_WithoutPartials(tmpl), comp, ctx).out
         /\ res.err = Render(C16_WithoutPartials(tmpl), comp, ctx).err
         /\ ~res.panic

\* C16 witness: A{{>P}}B{{x}} has been rendered with a provider that fails and
\* the error policy disabled; the variable after the partial was rendered.
C16_Witness ==
  /\ op = "Render"
  /\ C16_GetFailed # {}
  /\ ~tmpl.errorOnMissing
  /\ ctx = <<Other>>
  /\ res.out = <<"A", "B", "2">>
  /\ res.err = NoError

\* C16 witness, policy enabled: the same render returns the provider's error.
C16_WitnessErrors ==
  /\ op = "Render"
  /\ C16_GetFailed # {}
  /\ tmpl.errorOnMissing
  /\ res.out = <<"A">>
  /\ res.err = partialError(<<"P">>)

(***************************************************************************)
(* C17  a partial tag and no provider                                      *)
(***************************************************************************)
\* The partials of the render at hand that were rendered by a template whose
\* Compiler had no provider.
C17_NoProvider ==
  /\ op = "Render"
  /\ comp.partial = NoProvider
  /\ \E i \in 1..Len(res.log) : res.log[i].ev = "partial"

\* C17: a template compiled without a partial provider renders a partial tag
\* as nothing and without error when errors are disabled, returns an error
\* when they are enabled, and does not crash in either case.
C17_SafeWithoutProvider ==
  C17_NoProvider =>
    /\ ~res.panic
    /\ IF tmpl.errorOnMissing
       THEN res.err # NoError
       ELSE /\ res.err = Render(C16_WithoutPartials(tmpl), comp, ctx).err
            /\ res.out = Render(C16_WithoutPartials(tmpl), comp, ctx).out

\* What the renderer does: the call of Get through the nil provider panics,
\* whatever the error policy, and nothing recovers it.
C17_PanicsWithoutProvider == C17_NoProvider => res.panic

\* C17 case at hand: New().CompileString("A{{>P}}B{{x}}") has been rendered
\* and the render panicked at the partial, after writing A.
C17_Seen ==
  /\ C17_NoProvider
  /\ ~tmpl.errorOnMissing
  /\ res.panic
  /\ res.out = <<"A">>

(***************************************************************************)
(* C18  rendering leaves the template as it was compiled                   *)
(***************************************************************************)
\* A step that is a Render: it leaves the template (element tree, delimiter
\* pair, cursor, configuration) and its Compiler as they were, and a Render
\* repeated against the same contexts returns what the one before returned.
C18_Step ==
  op' \in {"Render", "Render again"} =>
    /\ tmpl' = tmpl
    /\ tmpl'.elems = tmpl.elems /\ tmpl'.otag = tmpl.otag /\ tmpl'.ctag = tmpl.ctag
    /\ comp' = comp
    /\ op' = "Render again" => (ctx' = ctx /\ res' = res)

C19_Content == Render(tmpl, comp, ctx)

\* The variables of the layout that were looked up.
C19_LayoutVars == {e \in Events : e.ev = "var" /\ e.buf = 0}

\* C19: RenderInLayout returns the layout rendered against the chain made of
\* {content: R} and then the caller's contexts, R being the output of the
\* receiver rendered against those contexts: content resolves to R in the
\* layout even when a caller's context defines content, the other names of
\* the layout resolve from the caller's contexts, and when rendering the
\* receiver fails its error is returned with an empty output and nothing of
\* the layout is rendered.
C19_RenderInLayout ==
  op = "RenderInLayout" =>
    LET content == C19_Content
        chain == <<MapV(ContentKey :> StrV(content.out))>> \o ctx
        laid == Render(res.layout, comp, chain)
    IN ~content.panic =>
         IF content.err # NoError
         THEN res.out = <<>> /\ res.err = content.err /\ res.log = <<>> /\ ~res.panic
         ELSE /\ res.err = laid.err
              /\ res.panic = laid.panic
              /\ res.err = NoError => res.out = laid.out
              /\ res.err # NoError => res.out = <<>>
              /\ \A e \in C19_LayoutVars :
                   /\ e.chain = chain
                   /\ e.name = ContentKey => e.value = StrV(content.out)
                   /\ e.name = N("x") => e.value = FirstValue(ctx, N("x"))

\* C19 witness: H{{content}}{{h}} has been rendered in the layout against a
\* context that defines content as W and x as 3: the layout shows the
\* receiver's output, raw and escaped, and the caller's x.
C19_Witness ==
  /\ op = "RenderInLayout"
  /\ ctx = <<Page>>
  /\ tmpl.outputMode = "EscapeHTML"
  /\ C19_Content.out = <<"H", "W">>
  /\ res.out = <<"[", "H", "W", "|", "H", "W", "|", "3", "]">>
  /\ res.err = NoError

\* C19 witness, receiver failing: a lambda of the receiver returned an error;
\* it is what RenderInLayout returned, with no output.
C19_WitnessFailed ==
  /\ op = "RenderInLayout"
  /\ C19_Content.err = lambdaError
  /\ res.err = lambdaError
  /\ res.out = <<>>

(***************************************************************************)
(* C20  only the listed kinds of tag can stand alone                       *)
(***************************************************************************)
\* Sources whose tags are all of the given pieces, none of them a section,
\* partial, comment or delimiter-change tag.
C20_Only(tags) == \A i \in 1..Len(toks) : toks[i] \in tags \cup C15_TextPieces

\* All the text of the source, tags left out.
C20_AllText ==
  Concat([i \in 1..Len(toks) |->
            IF toks[i] \in C15_TextPieces THEN Tokens[toks[i]] ELSE <<>>])

\* C20: a tag whose first character is none of ! # ^ / > = (a variable, a raw
\* variable, a name that begins with another symbol such as <) never stands
\* alone: a source with such tags only keeps all of its text, the spaces
\* before a tag that is alone on its line and the line terminator after it
\* included.
C20_OnlyListedStandalone ==
  (op = "Returned" /\ cerr = NoError /\ C20_Only({7, 8, 20})) =>
    C15_Text(tmpl.elems) = C20_AllText

\* What the parser does for {{x}} and {{{x}}}: the text is kept.
C20_VariablesNeverStandalone ==
  (op = "Returned" /\ cerr = NoError /\ C20_Only({7, 8})) =>
    C15_Text(tmpl.elems) = C20_AllText

\* C20 case at hand: a space, {{<x}} and a line feed have been compiled to the
\* variable named <x and no text at all.
C20_Seen ==
  /\ op = "Returned" /\ cerr = NoError
  /\ toks = <<17, 20, 16>>
  /\ C15_Text(tmpl.elems) = <<>>
  /\ \E i \in 1..Len(tmpl.elems) : tmpl.elems[i] = varElement(<<"<", "x">>, FALSE)

(***************************************************************************)
(* C21  a malformed delimiter-change tag                                   *)
(***************************************************************************)
\* The first piece of the source that is not benign is a delimiter-change
\* tag with a malformed body: {{=| =}}, one token between the '=' signs, or
\* {{=}}, no body at all.
C21_Malformed == \E k \in 1..Len(toks) : C8_First(k) /\ toks[k] \in {13, 14}

\* C21: a delimiter-change tag with a malformed body (not ending in '=',
\* empty, or not made of a new open and a new close delimiter) fails the
\* compilation with a structural error and leaves no template.
C21_MalformedRejected ==
  (op = "Returned" /\ C21_Malformed) =>
    /\ tmpl = NilTemplate
    /\ cerr.kind = "parse" /\ cerr.message = "Invalid meta tag"

\* What the parser does: the tag without its closing '=' is rejected; a body
\* of one token between two '=' signs is accepted and ignored, the delimiters
\* staying as they were.
C21_OnlyMissingEqualRejected ==
  \A k \in 1..Len(toks) :
    (op = "Returned" /\ C8_First(k)) =>
      /\ toks[k] = 14 =>
           /\ tmpl = NilTemplate
           /\ cerr.kind = "parse" /\ cerr.message = "Invalid meta tag"
      /\ (toks[k] = 13 /\ \A i \in (k + 1)..Len(toks) : toks[i] \in C8_Benign) =>
           /\ cerr = NoError /\ tmpl # NilTemplate
           /\ tmpl.otag = OT /\ tmpl.ctag = CT

\* C21 case at hand: {{=| =}}{{x}} has been compiled without error to the
\* variable x, the delimiters still {{ and }}.
C21_Seen ==
  /\ op = "Returned"
  /\ toks = <<13, 7>>
  /\ cerr = NoError
  /\ tmpl.otag = OT /\ tmpl.ctag = CT
  /\ \E i \in 1..Len(tmpl.elems) : tmpl.elems[i] = varElement(<<"x">>, FALSE)

(***************************************************************************)
(* C22  every other tag is a variable                                      *)
(***************************************************************************)
\* The Variable element a tag that is none of the special kinds must give:
\* {{x}}, {{{x}}}, {{<x}} and {{ {x}}, whose body begins with '{' and does
\* not end with '}'.
C22_Variable(piece) ==
  CASE piece = 7 -> varElement(<<"x">>, FALSE)
    [] piece = 8 -> varElement(<<"x">>, TRUE)
    [] piece = 20 -> varElement(<<"<", "x">>, FALSE)
    [] piece = 21 -> varElement(<<"{", "x">>, FALSE)

\* The Variable elements of the compiled template, in order.
C22_Variables == SelectSeq(tmpl.elems, LAMBDA e : e.type = "var")

\* The variable tags of the source, in order.
C22_Tags(pieces) == SelectSeq(toks, LAMBDA k : k \in pieces)

\* C22: every tag that is not a comment, a section open or close, a partial
\* or a delimiter change gives exactly one Variable element: raw for {name}
\* and &name, otherwise named by the trimmed body with raw as the forced-raw
\* flag; a body that begins with '{' and does not end with '}' included.
C22_OneVariablePerTag ==
  (op = "Returned" /\ cerr = NoError /\ C20_Only({7, 8, 20, 21})) =>
    C22_Variables = [i \in 1..Len(C22_Tags({7, 8, 20, 21})) |->
                       C22_Variable(C22_Tags({7, 8, 20, 21})[i])]

\* What the parser does for the other bodies: one Variable each.
C22_OneVariableUnlessBrace ==
  (op = "Returned" /\ cerr = NoError /\ C20_Only({7, 8, 20})) =>
    C22_Variables = [i \in 1..Len(C22_Tags({7, 8, 20})) |->
                       C22_Variable(C22_Tags({7, 8, 20})[i])]

\* C22 case at hand: {{ {x}}{{x}} has been compiled without error and the
\* template holds the variable x only.
C22_Seen ==
  /\ op = "Returned" /\ cerr = NoError
  /\ toks = <<21, 7>>
  /\ C22_Variables = <<varElement(<<"x">>, FALSE)>>

(***************************************************************************)
(* C23  the line of a section left open                                    *)
(***************************************************************************)
\* Sources in which sections are opened and none is closed: the pieces are
\* section-open tags and benign pieces, with one open tag at least.
C23_OpenOnly ==
  /\ \A i \in 1..Len(toks) : toks[i] \in C8_Opens \cup C8_Benign
  /\ \E i \in 1..Len(toks) : toks[i] \in C8_Opens

\* The innermost section open at the end of input, and the line of its tag.
C23_Innermost == CHOOSE k \in 1..Len(toks) :
  toks[k] \in C8_Opens /\ \A i \in (k + 1)..Len(toks) : toks[i] \notin C8_Opens

C23_LineOf(k) == 1 + Cardinality({i \in 1..(k - 1) : toks[i] = 16})

\* C23: when the input ends while a section is open, the error reports the
\* line on which the opening tag of that section stands, also when the tag
\* is alone on its line and followed by a line feed, and when the section
\* is nested in others.
C23_LineOfOpeningTag ==
  (op = "Returned" /\ C23_OpenOnly) =>
    /\ cerr.kind = "parse" /\ cerr.message = "Section has no closing tag"
    /\ cerr.line = C23_LineOf(C23_Innermost)

\* What the parser does: the line is the one the cursor is on after the tag
\* was read, which is the next line when the tag stood alone on its line and
\* the line ended with a line feed.
C23_LineAfterTag ==
  (op = "Returned" /\ C23_OpenOnly) =>
    /\ cerr.kind = "parse" /\ cerr.message = "Section has no closing tag"
    /\ cerr.line \in {C23_LineOf(C23_Innermost), C23_LineOf(C23_Innermost) + 1}
    /\ ((C23_Innermost = Len(toks)) \/ toks[C23_Innermost + 1] \notin {16, 17})
         => cerr.line = C23_LineOf(C23_Innermost)

\* C23 case at hand: {{#a}}, a line feed and t have been compiled; the
\* error names line 2, the tag is on line 1.
C23_Seen ==
  /\ op = "Returned"
  /\ toks = <<3, 16, 18>>
  /\ cerr = parseError(2, "Section has no closing tag", <<"a">>)

(***************************************************************************)
(* C24  the blanks before a tag are used once                              *)
(***************************************************************************)
\* The partial elements of the compiled template that carry an indent.
C24_Indented ==
  {i \in 1..Len(tmpl.elems) :
     tmpl.elems[i].type = "partial" /\ tmpl.elems[i].indent # <<>>}

\* C24: the blanks between the start of a line and a partial tag are either
\* the partial's indent (the tag stands alone) or literal text (it does
\* not), never both: a partial that carries an indent is not preceded by
\* the same blanks as text.
C24_PaddingUsedOnce ==
  (op = "Returned" /\ cerr = NoError) =>
    \A i \in C24_Indented :
      i > 1 => tmpl.elems[i - 1] # textElement(tmpl.elems[i].indent)

\* What the parser does: a partial that stands alone carries the blanks as
\* indent and no text; one that does not stand alone, with blanks between
\* the start of the line and the tag, has them as text and as indent.
C24_PaddingTwiceUnlessStandalone ==
  (op = "Returned" /\ cerr = NoError /\ C20_Only({10})) =>
    \A i \in C24_Indented :
      LET k == CHOOSE k \in 1..Len(toks) :
                 toks[k] = 10 /\ Cardinality({j \in 1..k : toks[j] = 10})
                                   = Cardinality({j \in 1..i : tmpl.elems[j].type = "partial"})
          alone == k = Len(toks) \/ toks[k + 1] = 16
                     \/ (k + 2 <= Len(toks) /\ toks[k + 1] = 19 /\ toks[k + 2] = 16)
      IN (tmpl.elems[i - 1] = textElement(tmpl.elems[i].indent)) = ~alone

\* C24 case at hand: a space, {{>p}} and t have been compiled; the space is
\* a text element and the indent of the partial as well.
C24_Seen ==
  /\ op = "Returned" /\ cerr = NoError
  /\ toks = <<17, 10, 18>>
  /\ \E i \in 2..Len(tmpl.elems) :
       /\ tmpl.elems[i].type = "partial" /\ tmpl.elems[i].indent = <<" ">>
       /\ tmpl.elems[i - 1] = textElement(<<" ">>)

(***************************************************************************)
(* C25.  The provider is asked at render time only, once for every         *)
(* rendering of a partial element, and what it holds at that moment is     *)
(* what is parsed.                                                         *)
(***************************************************************************)
C25_Gets == {i \in 1..Len(res.log) : res.log[i].ev = "partial"}

C25_Partials(elems) == Cardinality({i \in 1..Len(elems) : elems[i].type = "partial"})

\* The renderings of partial elements inside the sections that were iterated.
RECURSIVE C25_InSections(_)
C25_InSections(log) ==
  IF log = <<>> THEN 0
  ELSE (IF Head(log).ev = "section" /\ ~Head(log).lambda
        THEN Len(Head(log).contexts) * C25_Partials(Head(log).elems)
        ELSE 0) + C25_InSections(Tail(log))

C25_Twice == SecTags(N("l"), PartialTag(N("P"))) \o PartialTag(N("P"))

\* C25: CompileString does not call Get: what it builds does not depend on
\* what the provider holds, and nothing has been asked of the provider when it
\* returns.  A Render that returns calls Get once for every rendering of a
\* partial element (a partial in a section iterated n times is n calls), each
\* call is followed by a parse of what the provider holds at the time of that
\* Render, also after the provider was changed between two Renders.
C25_GetAtRenderOnly ==
  /\ (op = "CompileString" /\ tmpl # NilTemplate) =>
       /\ C25_Gets = {}
       /\ LET other == CompileString([comp EXCEPT !.partial = Provider2], tmpl.data)
          IN /\ other.err = NoError
             /\ Rebound(other.tmpl.elems, NoProvider) = Rebound(tmpl.elems, NoProvider)
  /\ (op \in {"Render", "Render again"} /\ ~res.panic) =>
       /\ \A i \in C25_Gets :
            LET e == res.log[i]
                now == Get(comp.partial, e.name)
            IN /\ e.err = now.err
               /\ e.err = NoError =>
                    e.tmpl = ParseStringPartials(IndentLines(now.data, e.indent, TRUE),
                                                 comp.partial).c.tmpl
       /\ res.err = NoError =>
            Cardinality(C25_Gets) = C25_Partials(tmpl.elems) + C25_InSections(res.log)

\* C25 witness: the template with the partial in a section and after it,
\* rendered against a list of two after the provider was changed: three calls
\* of Get and three times the new text.
C25_Witness ==
  /\ op = "Render again"
  /\ tmpl.data = C25_Twice
  /\ comp.partial = Provider2
  /\ Cardinality(C25_Gets) = 3
  /\ res.err = NoError
  /\ res.out = <<"q", "q", "q">>

(***************************************************************************)
(* C26.  The text handed to a lambda, compiled and rendered by the render  *)
(* callback, against rendering the section's own elements.                 *)
(***************************************************************************)
\* The lambda sections whose callable rendered its text and returned it.
C26_Rendered ==
  {i \in 1..Len(res.log) :
     /\ res.log[i].ev = "section" /\ res.log[i].buf = 0 /\ res.log[i].lambda
     /\ indirect(res.log[i].value).kind = "func"
     /\ indirect(res.log[i].value).fn = "render"
     /\ res.log[i].err = NoError /\ ~res.log[i].panic}

\* The elements hold a raw variable or a partial, at any depth.
RECURSIVE C26_RawOrPartial(_)
C26_RawOrPartial(elems) ==
  \E i \in 1..Len(elems) :
    \/ elems[i].type = "partial"
    \/ elems[i].type = "var" /\ elems[i].raw
    \/ elems[i].type = "section" /\ C26_RawOrPartial(elems[i].elems)

C26_Original(e) == renderElems([e.t EXCEPT !.elems = e.elems], e.r, e.elems, e.chain)

\* C26: what the render callback makes of the section's text is what rendering
\* the section's elements against the same chain writes, whatever the elements
\* are: text, escaped and raw variables, sections, partials.
C26_RoundTrip ==
  (op = "Render" /\ ~res.panic) =>
    \A i \in C26_Rendered :
      LET orig == C26_Original(res.log[i])
      IN (orig.err = NoError /\ ~orig.panic) => res.log[i].out = orig.out

\* C26, as the code has it: the round trip holds for the sections that hold
\* neither a raw variable nor a partial.
C26_RoundTripWithoutRawOrPartial ==
  (op = "Render" /\ ~res.panic) =>
    \A i \in C26_Rendered :
      LET orig == C26_Original(res.log[i])
      IN (~C26_RawOrPartial(res.log[i].elems) /\ orig.err = NoError /\ ~orig.panic)
           => res.log[i].out = orig.out

\* C26 case: a lambda section holding {{{h}}} whose callback wrote the value of
\* h escaped.
C26_Seen ==
  /\ op = "Render"
  /\ tmpl.data = SecTags(N("R"), Raw3Tag(N("h")) \o RawAmpTag(N("x")))
  /\ tmpl.outputMode = "EscapeHTML"
  /\ \E i \in C26_Rendered :
       /\ res.log[i].out = HTMLEscape(HtmlStr.s) \o <<"o">>
       /\ C26_Original(res.log[i]).out = HtmlStr.s \o <<"o">>

(***************************************************************************)
(* C27.  A probe of one chain entry that fails: a method of the name that  *)
(* returns no value.                                                       *)
(***************************************************************************)
\* The lookup of the claim: an entry whose probe fails is passed over like one
\* that does not define the name.
RECURSIVE C27_Skipping(_, _)
C27_Skipping(chain, seg) ==
  IF chain = <<>> THEN [r |-> "next", v |-> Invalid]
  ELSE IF Probe(Head(chain), seg).r = "found" THEN Probe(Head(chain), seg)
  ELSE C27_Skipping(Tail(chain), seg)

RECURSIVE C27_Lookup(_, _)
C27_Lookup(chain, segs) ==
  LET a == C27_Skipping(chain, Head(segs))
  IN IF a.r = "found" /\ Len(segs) > 1 THEN C27_Lookup(<<a.v>>, Tail(segs)) ELSE a

\* The lookup of the event met a probe that failed before it found the name.
RECURSIVE C27_Failed(_, _)
C27_Failed(chain, segs) ==
  LET a == Scan(chain, Head(segs))
  IN \/ a.r = "panic"
     \/ a.r = "found" /\ Len(segs) > 1 /\ C27_Failed(<<a.v>>, Tail(segs))

\* C27: a probe that fails is not propagated and counts as an entry that does
\* not define the name: the variable has the value of the first later entry
\* that defines it, and when no entry does, the missing-variable policy
\* applies: an error when errors are enabled, nothing otherwise.
C27_ProbeFailureSkipsEntry ==
  (op = "Render" /\ ~res.panic) =>
    \A e \in VarEvents :
      LET a == C27_Lookup(e.chain, Segments(e.name))
      IN C27_Failed(e.chain, Segments(e.name)) =>
           IF a.r = "found" THEN e.value = a.v /\ e.err = NoError
           ELSE e.value = Invalid /\ (e.err # NoError <=> e.t.errorOnMissing)

\* C27, as the code has it: a probe that fails ends the lookup: the variable
\* has no value and there is no error, whatever the later entries define and
\* whatever the policy.
C27_ProbeFailureEndsLookup ==
  (op = "Render" /\ ~res.panic) =>
    \A e \in VarEvents :
      C27_Failed(e.chain, Segments(e.name)) =>
        e.value = Invalid /\ e.err = NoError /\ e.out = <<>>

\* C27 case: {{#u}}{{V}}{{/u}} with errors enabled, where u has a method V
\* that returns nothing and a later context has an entry V: the variable is
\* rendered as nothing.
C27_Seen ==
  /\ op = "Render"
  /\ tmpl.data = SecTags(N("u"), VarTag(N("V")))
  /\ tmpl.errorOnMissing
  /\ res.err = NoError
  /\ \E e \in VarEvents :
       /\ e.name = N("V")
       /\ Probe(e.chain[1], e.name).r = "panic"
       /\ C27_Skipping(e.chain, e.name) = [r |-> "found", v |-> StrV(<<"v">>)]
       /\ e.value = Invalid /\ e.err = NoError

\* C27 case: {{u.V}} with errors enabled and no entry that defines V: no
\* error is returned.
C27_SeenNoError ==
  /\ op = "Render"
  /\ tmpl.errorOnMissing
  /\ res.err = NoError
  /\ \E e \in VarEvents :
       /\ e.name = <<"u", ".", "V">>
       /\ C27_Lookup(e.chain, Segments(e.name)).r = "next"
       /\ e.value = Invalid /\ e.err = NoError

(***************************************************************************)
(* C28.  The template a render callback compiles, and the configuration of *)
(* the template that holds the lambda section.                             *)
(***************************************************************************)
\* The variables rendered by the templates of render callbacks, in renders
\* without partials (a partial's template has a configuration of its own).
C28_InCallbacks ==
  IF \E e \in Events : e.ev = "partial" THEN {}
  ELSE {e \in VarEvents : e.buf >= 1}

C28_Same(a, b) ==
  /\ a.partial = b.partial
  /\ a.outputMode = b.outputMode
  /\ a.valueStringer = b.valueStringer
  /\ a.errorOnMissing = b.errorOnMissing

\* C28: the template of a render callback has the provider, the escape mode,
\* the stringifier and the missing-variable policy of the template that holds
\* the lambda section, also when the Compiler was configured again between
\* CompileString and Render.
C28_CallbackSharesConfiguration ==
  (op = "Render" /\ ~res.panic) => \A e \in C28_InCallbacks : C28_Same(e.t, tmpl)

\* C28, as the code has it: the template of a render callback has the
\* configuration the Compiler has when the template is rendered.
C28_CallbackHasCompilersConfiguration ==
  (op = "Render" /\ ~res.panic) => \A e \in C28_InCallbacks : C28_Same(e.t, comp)

\* C28 case: a template compiled for HTML whose Compiler was then set to Raw:
\* the callback of its lambda section writes the value of h unescaped.
C28_Seen ==
  /\ op = "Render"
  /\ tmpl.outputMode = "EscapeHTML"
  /\ comp.outputMode = "Raw"
  /\ \E e \in C28_InCallbacks :
       /\ e.name = N("h") /\ ~e.raw
       /\ e.t.outputMode = "Raw"
       /\ e.out = HtmlStr.s

(***************************************************************************)
(* C29.  Render without any context.                                       *)
(***************************************************************************)
C29_Sections == {i \in 1..Len(tmpl.elems) : tmpl.elems[i].type = "section"}

\* C29: a Render with an empty context list returns, with output or with an
\* error, for every template: a section is evaluated with its name unresolved.
\* (Templates with a partial and no provider are left to C17.)
C29_EmptyContextCompletes ==
  (op = "Render" /\ ctx = <<>> /\ (C25_Partials(tmpl.elems) = 0 \/ tmpl.partial # NoProvider))
    => ~res.panic

\* C29, as the code has it: with an empty context list, Render crashes exactly
\* when the template holds a section and errors are not enabled; with errors
\* enabled it returns the missing-variable error of the section's name or of
\* a variable before it.
C29_EmptyContextCrashesAtSection ==
  (op = "Render" /\ ctx = <<>> /\ (C25_Partials(tmpl.elems) = 0 \/ tmpl.partial # NoProvider))
    => /\ res.panic <=> (C29_Sections # {} /\ ~tmpl.errorOnMissing)
       /\ (C29_Sections # {} /\ tmpl.errorOnMissing) => res.err.kind = "missing"

\* C29 case: an inverted section rendered without contexts and without errors
\* enabled.
C29_Seen ==
  /\ op = "Render"
  /\ ctx = <<>>
  /\ ~tmpl.errorOnMissing
  /\ \E i \in C29_Sections : tmpl.elems[i].inverted
  /\ res.panic

(***************************************************************************)
(* C30.  The configuration of the template built for a partial.            *)
(***************************************************************************)
\* The variables rendered by the templates of partials: the events that follow
\* the call of getPartials, one for every element of the partial's template
\* (the partials of the model hold text and variables only).
C30_InPartials ==
  {j \in 1..Len(res.log) :
     /\ res.log[j].ev = "var"
     /\ \E i \in C25_Gets :
          /\ res.log[i].err = NoError /\ ~res.log[i].panic
          /\ i < j /\ j <= i + Len(res.log[i].tmpl.elems)}

\* C30: a variable of a partial is rendered with the escape mode, the
\* stringifier and the missing-variable policy of the including template: with
\* errors enabled there, a variable missing in the partial is an error.
C30_PartialSharesConfiguration ==
  (op = "Render" /\ ~res.panic) =>
    \A j \in C30_InPartials :
      LET e == res.log[j]
      IN /\ e.t.outputMode = tmpl.outputMode
         /\ e.t.valueStringer = tmpl.valueStringer
         /\ e.t.errorOnMissing = tmpl.errorOnMissing
         /\ (e.value = Invalid /\ tmpl.errorOnMissing) => e.err # NoError

\* C30, as the code has it: a partial's template escapes for HTML, has no
\* stringifier and ignores missing variables, whatever the including template
\* was configured with; it shares the provider only.
C30_PartialHasDefaultConfiguration ==
  (op = "Render" /\ ~res.panic) =>
    \A j \in C30_InPartials :
      LET e == res.log[j]
      IN /\ e.t.outputMode = "EscapeHTML"
         /\ e.t.valueStringer = "nil"
         /\ ~e.t.errorOnMissing
         /\ e.t.partial = tmpl.partial
         /\ e.err = NoError

\* C30 case: a Raw template with errors enabled includes a partial whose
\* variable is missing: the partial is rendered for HTML and without an error.
C30_Seen ==
  /\ op = "Render"
  /\ tmpl.outputMode = "Raw"
  /\ tmpl.errorOnMissing
  /\ \E j \in C30_InPartials :
       /\ res.log[j].value = Invalid
       /\ res.log[j].err = NoError
       /\ res.log[j].t.outputMode = "EscapeHTML"
       /\ ~res.log[j].t.errorOnMissing

====
